---------------------------- MODULE Spec2Model ----------------------------
(***************************************************************************)
(* State-machine model of the sandbox adapters of agent-sandbox-adaptor:   *)
(* BaseSandboxAdapter (lifecycle state, waitUntilReady, capability         *)
(* dispatch, batch file operations) and its three concrete adapters        *)
(* OpenSandboxAdapter, FastGPTSandboxAdapter and MinimalProviderAdapter,   *)
(* plus the FallbackAdapter / NoPolyfillAdapter of the unit tests.         *)
(*                                                                         *)
(* The specifications share the variables:                                 *)
(*   Spec       lifecycle and capability calls of one adapter instance;    *)
(*   SpecWait   one waitUntilReady poll loop against a wall clock          *)
(*              (SpecWaitFair adds the scheduler's fairness);              *)
(*   SpecFiles  readFiles / writeFiles / deleteFiles, the delegating       *)
(*              polyfilled operations, readFileStream / writeFileStream;   *)
(*   SpecExec   executeStream over execute;                                *)
(*   SpecMock   file operations of MockSandboxAdapter;                     *)
(*   SpecSearch search of MockSandboxAdapter;                              *)
(*   SpecReady  FastGPTSandboxAdapter.execute over waitUntilReady;         *)
(*   SpecRace   lifecycle calls issued without awaiting each other.        *)
(***************************************************************************)
EXTENDS Integers, Sequences, FiniteSets, TLC

VARIABLES
  adapter,          \* which adapter class the instance is (its provider id)
  hasPolyfill,      \* this.polyfillService is defined
  status,           \* this._status: [state, reason]
  connectionState,  \* OpenSandboxAdapter._connectionState
  hasSandbox,       \* OpenSandboxAdapter._sandbox is defined
  connection,       \* MinimalProviderAdapter.connection is defined
  hasFactory,       \* MinimalProviderConfig.connectionFactory is given
  last,             \* the last completed public call and how it ended
  wpc,              \* waitUntilReady: position in the poll loop
  now,              \* Date.now(), ms since the call's startTime
  timeoutMs,        \* waitUntilReady's argument
  pingLog,          \* results of the pings of this call, in order
  sleepLog,         \* the ms argument of every sleep of this call, in order
  outstanding,      \* pings started and not yet returned
  pingTime,         \* total ms spent inside ping() in this call
  werror,           \* the error waitUntilReady rejected with
  fs,               \* remote file system: path -> content or NoFile
  fcall,            \* the batch call in progress (or idle)
  fresults,         \* results pushed so far
  fattempts,        \* what happened to each item handled so far: "ok" / "failed"
  inflight,         \* polyfill commands issued and not yet completed
  execCalls,        \* execute() calls made during the current call
  fret,             \* how the last file / delegated call returned
  gen,              \* readFileStream: the async generator (position, size, error)
  genPulls,          \* next() calls the consumer has made on it
  genReads,          \* arguments of the polyfill reads it has issued, in order
  genChunks,         \* chunks it has yielded, in order, as byte intervals
  xs,               \* executeStream: the call in progress (position, handlers)
  xlog,             \* execute() calls and handler invocations of it, in order
  mlog,             \* MockSandboxAdapter: returned file calls of the running
                    \* write / read / delete / read sequence on one path
  srch,             \* MockSandboxAdapter.search: the last call and its result
  sdkInst,          \* OpenSandboxAdapter: the SDK instance in _sandbox, its id,
                    \* _id, and how the SDK call of the last pause / resume ended
  pending           \* public calls issued and not yet settled: [op, phase, stale]

lifeVars == <<adapter, hasPolyfill, status, connectionState, hasSandbox,
              connection, hasFactory, last, sdkInst>>
waitVars == <<wpc, now, timeoutMs, pingLog, sleepLog, outstanding,
              pingTime, werror>>
fileVars == <<fs, fcall, fresults, fattempts, inflight, execCalls, fret>>
streamVars == <<gen, genPulls, genReads, genChunks>>
execVars == <<xs, xlog>>
mockVars == <<mlog, srch>>
raceVars == <<pending>>
vars == <<lifeVars, waitVars, fileVars, streamVars, execVars, mockVars, raceVars>>

----------------------------------------------------------------------------
(* Shared vocabulary *)

Adapters == {"opensandbox", "fastgpt", "minimal", "fallback"}

States == {"Creating", "Running", "Paused", "Error", "Deleted"}

St(s) == [state |-> s, reason |-> "none"]

StatusValues ==
  {St(s) : s \in States} \cup {[state |-> "Error", reason |-> r] : r \in {"Unknown state", "remote"}}

\* sandbox id used in error messages
IdOf(a) == a

NoErr == [kind |-> "none", feature |-> "none", provider |-> "none"]

Err(kind) == [kind |-> kind, feature |-> "none", provider |-> "none"]

\* new FeatureNotSupportedError(message, feature, provider)
FeatureNotSupportedError(feature, provider) ==
  [kind |-> "FeatureNotSupportedError", feature |-> feature, provider |-> provider]

\* new SandboxStateError(message, currentState, expectedState)
SandboxStateError(current, expected) ==
  [kind |-> "SandboxStateError", feature |-> "none", provider |-> "none",
   current |-> current, expected |-> expected]

\* the record of a finished call: op, resolved value or error, the number of
\* SDK / connection calls and of execute() calls it made, status before it
Done(op, value, err, sdk, exec) ==
  [op |-> op, value |-> value, err |-> err, sdk |-> sdk, exec |-> exec,
   before |-> status]

\* no readFileStream generator exists
GenIdle == [pc |-> "idle", n |-> 0, info |-> "none", sized |-> FALSE, size |-> 0,
           offset |-> 0, err |-> NoErr]

\* ExecuteResult
Result(stdout, stderr, exitCode) ==
  [stdout |-> stdout, stderr |-> stderr, exitCode |-> exitCode]

\* no executeStream call is in progress
XsIdle == [pc |-> "idle", command |-> "none", options |-> "none", handlers |-> {},
           stage |-> 0, hasResult |-> FALSE, result |-> Result("", "", 0),
           err |-> NoErr]

\* no search call has been made
NoSearch == [files |-> {}, pattern |-> <<>>, path |-> <<>>, hasPath |-> FALSE,
             results |-> {}]

\* OpenSandboxAdapter before create() / connect(): _sandbox undefined, _id = ''
NoInst == [obj |-> 0, sid |-> "", id |-> "", outcome |-> "none"]

NoCall == [op |-> "none", value |-> "none", err |-> NoErr, sdk |-> 0, exec |-> 0,
           before |-> St("Creating")]


----------------------------------------------------------------------------
(* Lifecycle: what is left alone by every lifecycle / capability call *)

OpenSandboxFrame ==
  UNCHANGED <<adapter, hasPolyfill, hasFactory, waitVars, fileVars, streamVars, execVars,
             mockVars, raceVars>>

LifeFrame == OpenSandboxFrame /\ UNCHANGED sdkInst

\* outcomes of a call into the provider SDK (external collaborator)
SdkOutcomes == {"ok", "fail", "unsupported"}

\* ids the SDK gives its sandboxes
SandboxIds == {"sb-1", "sb-2"}

\* an SDK instance other than the one held: Sandbox.create, Sandbox.connect and
\* sandbox.resume() each return a new object
FreshObj(o) == IF o = 1 THEN 2 ELSE 1

\* this._sandbox = <instance>; this._id = this._sandbox.id
Held(obj, sid, outcome) == [obj |-> obj, sid |-> sid, id |-> sid, outcome |-> outcome]

\* OpenSandboxAdapter: private get sandbox() -- throws when _sandbox is unset
SandboxGetterThrows == ~hasSandbox

\* OpenSandboxAdapter.pause / resume: the catch block's translation of an error
\* thrown inside the try (the getter's SandboxStateError carries no SDK code)
TranslateNotSupported(op, outcome) ==
  IF outcome = "unsupported"
    THEN FeatureNotSupportedError(op, "opensandbox")
    ELSE Err("CommandExecutionError")

----------------------------------------------------------------------------
(* OpenSandboxAdapter *)

OpenSandbox_create ==
  /\ adapter = "opensandbox"
  /\ \/ /\ hasSandbox' = TRUE
        /\ \E sid \in SandboxIds : sdkInst' = Held(FreshObj(sdkInst.obj), sid, "none")
        /\ status' = St("Running")
        /\ connectionState' = "connected"
        /\ last' = Done("create", "void", NoErr, 1, 0)
     \/ /\ connectionState' = "disconnected"
        /\ sdkInst' = [sdkInst EXCEPT !.outcome = "none"]
        /\ UNCHANGED <<hasSandbox, status>>
        /\ last' = Done("create", "none", Err("ConnectionError"), 1, 0)
  /\ UNCHANGED connection
  /\ OpenSandboxFrame

OpenSandbox_connect ==
  /\ adapter = "opensandbox"
  /\ \/ /\ hasSandbox' = TRUE
        /\ \E sid \in SandboxIds : sdkInst' = Held(FreshObj(sdkInst.obj), sid, "none")
        /\ status' = St("Running")
        /\ connectionState' = "connected"
        /\ last' = Done("connect", "void", NoErr, 1, 0)
     \/ /\ connectionState' = "disconnected"
        /\ sdkInst' = [sdkInst EXCEPT !.outcome = "none"]
        /\ UNCHANGED <<hasSandbox, status>>
        /\ last' = Done("connect", "none", Err("ConnectionError"), 1, 0)
  /\ UNCHANGED connection
  /\ OpenSandboxFrame

\* the body of resume(), also reached from start(); op names the caller
OpenSandboxResumeBody(op) ==
  \/ /\ SandboxGetterThrows
     /\ UNCHANGED <<hasSandbox, status>>
     /\ sdkInst' = [sdkInst EXCEPT !.outcome = "none"]
     /\ last' = Done(op, "none", TranslateNotSupported("resume", "fail"), 0, 0)
  \/ /\ ~SandboxGetterThrows
     /\ \E o \in SdkOutcomes :
          IF o = "ok"
            THEN /\ hasSandbox' = TRUE
                 /\ \E sid \in SandboxIds :
                      sdkInst' = Held(FreshObj(sdkInst.obj), sid, o)
                 /\ status' = St("Running")
                 /\ last' = Done(op, "void", NoErr, 1, 0)
            ELSE /\ UNCHANGED <<hasSandbox, status>>
                 /\ sdkInst' = [sdkInst EXCEPT !.outcome = o]
                 /\ last' = Done(op, "none", TranslateNotSupported("resume", o), 1, 0)

OpenSandbox_start ==
  /\ adapter = "opensandbox"
  /\ \/ /\ status.state = "Paused"
        /\ OpenSandboxResumeBody("start")
     \/ /\ status.state # "Paused"
        /\ UNCHANGED <<hasSandbox, status>>
        /\ sdkInst' = [sdkInst EXCEPT !.outcome = "none"]
        /\ last' = Done("start", "void", NoErr, 0, 0)
  /\ UNCHANGED <<connectionState, connection>>
  /\ OpenSandboxFrame

\* stop() and delete() share one body: sandbox.kill()
OpenSandboxKillBody(op) ==
  \/ /\ SandboxGetterThrows
     /\ UNCHANGED <<status, connectionState>>
     /\ last' = Done(op, "none", Err("CommandExecutionError"), 0, 0)
  \/ /\ ~SandboxGetterThrows
     /\ \/ /\ status' = St("Deleted")
           /\ connectionState' = "disconnected"
           /\ last' = Done(op, "void", NoErr, 1, 0)
        \/ /\ UNCHANGED <<status, connectionState>>
           /\ last' = Done(op, "none", Err("CommandExecutionError"), 1, 0)

OpenSandbox_stop ==
  /\ adapter = "opensandbox"
  /\ OpenSandboxKillBody("stop")
  /\ UNCHANGED <<hasSandbox, connection>>
  /\ LifeFrame

OpenSandbox_delete ==
  /\ adapter = "opensandbox"
  /\ OpenSandboxKillBody("delete")
  /\ UNCHANGED <<hasSandbox, connection>>
  /\ LifeFrame

\* mutant: the status is set before the SDK call is awaited
OpenSandbox_pause_StatusFirst ==
  /\ adapter = "opensandbox"
  /\ \/ /\ SandboxGetterThrows
        /\ UNCHANGED status
        /\ sdkInst' = [sdkInst EXCEPT !.outcome = "none"]
        /\ last' = Done("pause", "none", TranslateNotSupported("pause", "fail"), 0, 0)
     \/ /\ ~SandboxGetterThrows
        /\ status' = St("Paused")
        /\ \E o \in SdkOutcomes :
             /\ sdkInst' = [sdkInst EXCEPT !.outcome = o]
             /\ IF o = "ok"
                  THEN last' = Done("pause", "void", NoErr, 1, 0)
                  ELSE last' = Done("pause", "none", TranslateNotSupported("pause", o), 1, 0)
  /\ UNCHANGED <<hasSandbox, connectionState, connection>>
  /\ OpenSandboxFrame

\* pause(): await this.sandbox.pause(), then the status; the catch block
\* translates the error
OpenSandbox_pause ==
  /\ adapter = "opensandbox"
  /\ \/ /\ SandboxGetterThrows
        /\ UNCHANGED status
        /\ sdkInst' = [sdkInst EXCEPT !.outcome = "none"]
        /\ last' = Done("pause", "none", TranslateNotSupported("pause", "fail"), 0, 0)
     \/ /\ ~SandboxGetterThrows
        /\ \E o \in SdkOutcomes :
             /\ sdkInst' = [sdkInst EXCEPT !.outcome = o]
             /\ IF o = "ok"
                  THEN /\ status' = St("Paused")
                       /\ last' = Done("pause", "void", NoErr, 1, 0)
                  ELSE /\ UNCHANGED status
                       /\ last' = Done("pause", "none", TranslateNotSupported("pause", o), 1, 0)
  /\ UNCHANGED <<hasSandbox, connectionState, connection>>
  /\ OpenSandboxFrame

OpenSandbox_resume ==
  /\ adapter = "opensandbox"
  /\ OpenSandboxResumeBody("resume")
  /\ UNCHANGED <<connectionState, connection>>
  /\ OpenSandboxFrame

OpenSandbox_getInfo ==
  /\ adapter = "opensandbox"
  /\ \/ /\ SandboxGetterThrows
        /\ last' = Done("getInfo", "none", Err("CommandExecutionError"), 0, 0)
     \/ /\ ~SandboxGetterThrows
        /\ \/ last' = Done("getInfo", "info", NoErr, 1, 0)
           \/ last' = Done("getInfo", "none", Err("CommandExecutionError"), 1, 0)
  /\ UNCHANGED <<status, hasSandbox, connectionState, connection>>
  /\ LifeFrame

\* close(): try { await this._sandbox?.close() } finally { reset everything }
OpenSandbox_close ==
  /\ adapter = "opensandbox"
  /\ hasSandbox' = FALSE
  /\ sdkInst' = NoInst
  /\ connectionState' = "closed"
  /\ status' = St("Deleted")
  /\ \/ last' = Done("close", "void", NoErr, IF hasSandbox THEN 1 ELSE 0, 0)
     \/ /\ hasSandbox
        /\ last' = Done("close", "none", Err("SdkError"), 1, 0)
  /\ UNCHANGED connection
  /\ OpenSandboxFrame

OpenSandbox_executeBackground ==
  /\ adapter = "opensandbox"
  /\ \/ /\ SandboxGetterThrows
        /\ last' = Done("executeBackground", "none", Err("CommandExecutionError"), 0, 0)
     \/ /\ ~SandboxGetterThrows
        /\ \/ last' = Done("executeBackground", "session", NoErr, 1, 0)
           \/ last' = Done("executeBackground", "none", Err("CommandExecutionError"), 1, 0)
  /\ UNCHANGED <<status, hasSandbox, connectionState, connection>>
  /\ LifeFrame

OpenSandbox_interrupt ==
  /\ adapter = "opensandbox"
  /\ \/ /\ SandboxGetterThrows
        /\ last' = Done("interrupt", "none", Err("CommandExecutionError"), 0, 0)
     \/ /\ ~SandboxGetterThrows
        /\ \/ last' = Done("interrupt", "void", NoErr, 1, 0)
           \/ last' = Done("interrupt", "none", Err("CommandExecutionError"), 1, 0)
  /\ UNCHANGED <<status, hasSandbox, connectionState, connection>>
  /\ LifeFrame

\* ping(): try { return await this.sandbox.health.ping() } catch { return false }
OpenSandbox_ping ==
  /\ adapter = "opensandbox"
  /\ \/ /\ SandboxGetterThrows
        /\ last' = Done("ping", FALSE, NoErr, 0, 0)
     \/ /\ ~SandboxGetterThrows
        /\ \E v \in BOOLEAN : last' = Done("ping", v, NoErr, 1, 0)
  /\ UNCHANGED <<status, hasSandbox, connectionState, connection>>
  /\ LifeFrame

\* getMetrics(): return this.sandbox.metrics.getMetrics()
OpenSandbox_getMetrics ==
  /\ adapter = "opensandbox"
  /\ \/ /\ SandboxGetterThrows
        /\ last' = Done("getMetrics", "none",
                        SandboxStateError(connectionState, "connected"), 0, 0)
     \/ /\ ~SandboxGetterThrows
        /\ \/ last' = Done("getMetrics", "metrics", NoErr, 1, 0)
           \/ last' = Done("getMetrics", "none", Err("SdkError"), 1, 0)
  /\ UNCHANGED <<status, hasSandbox, connectionState, connection>>
  /\ LifeFrame

\* exit codes a remote command terminates with
ExitCodes == {0, 1, 127}

\* what execute resolved with, next to the exit code the command had remotely
Executed(remote, exitCode) ==
  [remote |-> remote, result |-> Result("out", "", exitCode)]

\* renewExpiration(): try { await this.sandbox.renew(..) } catch { CommandExecutionError }
OpenSandbox_renewExpiration ==
  /\ adapter = "opensandbox"
  /\ \/ /\ SandboxGetterThrows
        /\ last' = Done("renewExpiration", "none", Err("CommandExecutionError"), 0, 0)
     \/ /\ ~SandboxGetterThrows
        /\ \/ last' = Done("renewExpiration", "void", NoErr, 1, 0)
           \/ last' = Done("renewExpiration", "none", Err("CommandExecutionError"), 1, 0)
  /\ UNCHANGED <<status, hasSandbox, connectionState, connection>>
  /\ LifeFrame

\* execute(): this.sandbox.commands.run; const exitCode = 0; a
\* SandboxStateError is rethrown, anything else becomes CommandExecutionError
OpenSandbox_execute ==
  /\ adapter = "opensandbox"
  /\ \/ /\ SandboxGetterThrows
        /\ last' = Done("execute", "none",
                        SandboxStateError(connectionState, "connected"), 0, 0)
     \/ /\ ~SandboxGetterThrows
        /\ \/ \E e \in ExitCodes : last' = Done("execute", Executed(e, 0), NoErr, 1, 0)
           \/ last' = Done("execute", "none", Err("CommandExecutionError"), 1, 0)
  /\ UNCHANGED <<status, hasSandbox, connectionState, connection>>
  /\ LifeFrame

\* executeStream(): every throw inside the try becomes CommandExecutionError
OpenSandbox_executeStream ==
  /\ adapter = "opensandbox"
  /\ \/ /\ SandboxGetterThrows
        /\ last' = Done("executeStream", "none", Err("CommandExecutionError"), 0, 0)
     \/ /\ ~SandboxGetterThrows
        /\ \/ last' = Done("executeStream", "void", NoErr, 1, 0)
           \/ last' = Done("executeStream", "none", Err("CommandExecutionError"), 1, 0)
  /\ UNCHANGED <<status, hasSandbox, connectionState, connection>>
  /\ LifeFrame

----------------------------------------------------------------------------
(* FastGPTSandboxAdapter *)

\* container states the FastGPT SDK reports
ContainerStates == {"Running", "Creating", "Paused", "Error", "Unknown"}

mapContainerStatus(state) ==
  CASE state = "Running"  -> St("Running")
    [] state = "Creating" -> St("Creating")
    [] state = "Paused"   -> St("Paused")
    [] state = "Error"    -> St("Error")
    [] OTHER              -> [state |-> "Error", reason |-> "Unknown state"]

\* getInfo(): sdk.container.get, then this._status = mapContainerStatus(...)
FastGPT_getInfo ==
  /\ adapter = "fastgpt"
  /\ \/ /\ UNCHANGED status
        /\ last' = Done("getInfo", "none", Err("CommandExecutionError"), 1, 0)
     \/ /\ UNCHANGED status
        /\ last' = Done("getInfo", "null", NoErr, 1, 0)
     \/ \E c \in ContainerStates :
          /\ status' = mapContainerStatus(c)
          /\ last' = Done("getInfo", "info", NoErr, 1, 0)
  /\ UNCHANGED <<hasSandbox, connectionState, connection>>
  /\ LifeFrame

\* create(): getInfo(); if it exists return; Creating; sdk.container.create;
\* waitUntilReady(); Running -- every throw becomes ConnectionError
FastGPT_create ==
  /\ adapter = "fastgpt"
  /\ \/ /\ UNCHANGED status                       \* getInfo() rejects
        /\ last' = Done("create", "none", Err("ConnectionError"), 1, 0)
     \/ \E c \in ContainerStates :                \* the container exists
          /\ status' = mapContainerStatus(c)
          /\ last' = Done("create", "void", NoErr, 1, 0)
     \/ /\ status' = St("Creating")               \* sdk.container.create rejects
        /\ last' = Done("create", "none", Err("ConnectionError"), 2, 0)
     \/ /\ status' = St("Creating")               \* waitUntilReady() rejects
        /\ last' = Done("create", "none", Err("ConnectionError"), 3, 0)
     \/ /\ status' = St("Running")
        /\ last' = Done("create", "void", NoErr, 3, 0)
  /\ UNCHANGED <<hasSandbox, connectionState, connection>>
  /\ LifeFrame

\* start / stop / pause / resume / delete: one SDK call, then the status
FastGPTSdkThenStatus(op, target) ==
  \/ /\ status' = St(target)
     /\ last' = Done(op, "void", NoErr, 1, 0)
  \/ /\ UNCHANGED status
     /\ last' = Done(op, "none", Err("CommandExecutionError"), 1, 0)

FastGPT_start ==
  /\ adapter = "fastgpt"
  /\ FastGPTSdkThenStatus("start", "Running")
  /\ UNCHANGED <<hasSandbox, connectionState, connection>>
  /\ LifeFrame

\* mutant: stop() leaves the status Deleted
FastGPT_stop_SetsDeleted ==
  /\ adapter = "fastgpt"
  /\ FastGPTSdkThenStatus("stop", "Deleted")
  /\ UNCHANGED <<hasSandbox, connectionState, connection>>
  /\ LifeFrame

\* stop(): sdk.container.pause, then Paused
FastGPT_stop ==
  /\ adapter = "fastgpt"
  /\ FastGPTSdkThenStatus("stop", "Paused")
  /\ UNCHANGED <<hasSandbox, connectionState, connection>>
  /\ LifeFrame

FastGPT_pause ==
  /\ adapter = "fastgpt"
  /\ FastGPTSdkThenStatus("pause", "Paused")
  /\ UNCHANGED <<hasSandbox, connectionState, connection>>
  /\ LifeFrame

FastGPT_resume ==
  /\ adapter = "fastgpt"
  /\ FastGPTSdkThenStatus("resume", "Running")
  /\ UNCHANGED <<hasSandbox, connectionState, connection>>
  /\ LifeFrame

FastGPT_delete ==
  /\ adapter = "fastgpt"
  /\ FastGPTSdkThenStatus("delete", "Deleted")
  /\ UNCHANGED <<hasSandbox, connectionState, connection>>
  /\ LifeFrame

\* close(): return this.delete()
FastGPT_close ==
  /\ adapter = "fastgpt"
  /\ FastGPTSdkThenStatus("close", "Deleted")
  /\ UNCHANGED <<hasSandbox, connectionState, connection>>
  /\ LifeFrame

\* ping(): try { return await this.sdk.sandbox.health(id) } catch { return false }
FastGPT_ping ==
  /\ adapter = "fastgpt"
  /\ \E v \in BOOLEAN : last' = Done("ping", v, NoErr, 1, 0)
  /\ UNCHANGED <<status, hasSandbox, connectionState, connection>>
  /\ LifeFrame

\* execute(): waitUntilReady(), sdk.sandbox.exec, exitCode: response.exitCode;
\* every throw becomes CommandExecutionError
FastGPT_execute ==
  /\ adapter = "fastgpt"
  /\ \/ last' = Done("execute", "none", Err("CommandExecutionError"), 1, 0)
     \/ last' = Done("execute", "none", Err("CommandExecutionError"), 2, 0)
     \/ \E e \in ExitCodes : last' = Done("execute", Executed(e, e), NoErr, 2, 0)
  /\ UNCHANGED <<status, hasSandbox, connectionState, connection>>
  /\ LifeFrame

----------------------------------------------------------------------------
(* BaseSandboxAdapter: operations the concrete adapters inherit *)

ProviderOf(a) == a

\* executeBackground: throw new FeatureNotSupportedError(.., 'executeBackground', provider)
Base_executeBackground ==
  /\ adapter \in {"fastgpt", "minimal", "fallback"}
  /\ last' = Done("executeBackground", "none",
                  FeatureNotSupportedError("executeBackground", ProviderOf(adapter)), 0, 0)
  /\ UNCHANGED <<status, hasSandbox, connectionState, connection>>
  /\ LifeFrame

\* interrupt: throw new FeatureNotSupportedError(.., 'interrupt', provider)
Base_interrupt ==
  /\ adapter \in {"fastgpt", "minimal", "fallback"}
  /\ last' = Done("interrupt", "none",
                  FeatureNotSupportedError("interrupt", ProviderOf(adapter)), 0, 0)
  /\ UNCHANGED <<status, hasSandbox, connectionState, connection>>
  /\ LifeFrame

\* requirePolyfillService(feature, message): the error it throws, or NoErr
requirePolyfillService(feature) ==
  IF ~hasPolyfill
    THEN FeatureNotSupportedError(feature, ProviderOf(adapter))
    ELSE NoErr

\* whether this.execute(command) of the adapter can run a command at all
\* (MinimalProviderAdapter.execute throws without a connection)
ExecuteAvailable == adapter # "minimal" \/ connection

\* CommandPolyfillService.ping(): one execute of a fixed command, true only on
\* the exact expected output, every failure false; the values it can return
PolyfillPingValues == IF ExecuteAvailable THEN BOOLEAN ELSE {FALSE}

\* ping(): requirePolyfillService('ping', ..); return polyfillService.ping()
Base_ping ==
  /\ adapter \in {"minimal", "fallback"}
  /\ \/ /\ requirePolyfillService("ping") # NoErr
        /\ last' = Done("ping", "none", requirePolyfillService("ping"), 0, 0)
     \/ /\ requirePolyfillService("ping") = NoErr
        /\ \E v \in PolyfillPingValues : last' = Done("ping", v, NoErr, 0, 1)
  /\ UNCHANGED <<status, hasSandbox, connectionState, connection>>
  /\ LifeFrame

----------------------------------------------------------------------------
(* MinimalProviderAdapter *)

\* what connection.getStatus() can answer
RemoteStatuses == {St(s) : s \in States} \cup {[state |-> "Error", reason |-> "remote"]}

\* create(config): connectionFactory(), Running, then the entrypoint command
Minimal_create ==
  /\ adapter = "minimal"
  /\ \/ /\ ~hasFactory
        /\ UNCHANGED <<status, connection>>
        /\ last' = Done("create", "none", Err("Error"), 0, 0)
     \/ /\ hasFactory                              \* the factory rejects
        /\ UNCHANGED <<status, connection>>
        /\ last' = Done("create", "none", Err("SdkError"), 1, 0)
     \/ /\ hasFactory
        /\ connection' = TRUE
        /\ status' = St("Running")
        /\ \/ last' = Done("create", "void", NoErr, 1, 0)
           \/ last' = Done("create", "void", NoErr, 2, 1)            \* entrypoint ran
           \/ last' = Done("create", "none", Err("SdkError"), 2, 1)  \* entrypoint rejects
  /\ UNCHANGED <<hasSandbox, connectionState>>
  /\ LifeFrame

\* connect(connection): this._status = await connection.getStatus()
Minimal_connect ==
  /\ adapter = "minimal"
  /\ connection' = TRUE
  /\ \/ \E s \in RemoteStatuses :
          /\ status' = s
          /\ last' = Done("connect", "void", NoErr, 1, 0)
     \/ /\ UNCHANGED status
        /\ last' = Done("connect", "none", Err("SdkError"), 1, 0)
  /\ UNCHANGED <<hasSandbox, connectionState>>
  /\ LifeFrame

\* start(): this._status = { state: 'Running' }
Minimal_start ==
  /\ adapter = "minimal"
  /\ status' = St("Running")
  /\ last' = Done("start", "void", NoErr, 0, 0)
  /\ UNCHANGED <<hasSandbox, connectionState, connection>>
  /\ LifeFrame

\* the number of connection calls execute('exit 0') makes inside stop()
MinimalStopSdkCalls == IF connection THEN 1 ELSE 0

\* stop(): await this.execute('exit 0').catch(() => {}); status Deleted
Minimal_stop ==
  /\ adapter = "minimal"
  /\ status' = St("Deleted")
  /\ last' = Done("stop", "void", NoErr, MinimalStopSdkCalls, 1)
  /\ UNCHANGED <<hasSandbox, connectionState, connection>>
  /\ LifeFrame

\* mutant: the status is set before the throw
Minimal_pause_SetsPaused ==
  /\ adapter = "minimal"
  /\ status' = St("Paused")
  /\ last' = Done("pause", "none", FeatureNotSupportedError("pause", ProviderOf(adapter)), 0, 0)
  /\ UNCHANGED <<hasSandbox, connectionState, connection>>
  /\ LifeFrame

\* pause(): throw new FeatureNotSupportedError(.., 'pause', provider)
Minimal_pause ==
  /\ adapter = "minimal"
  /\ last' = Done("pause", "none", FeatureNotSupportedError("pause", ProviderOf(adapter)), 0, 0)
  /\ UNCHANGED <<status, hasSandbox, connectionState, connection>>
  /\ LifeFrame

\* resume(): throw new FeatureNotSupportedError(.., 'resume', provider)
Minimal_resume ==
  /\ adapter = "minimal"
  /\ last' = Done("resume", "none", FeatureNotSupportedError("resume", ProviderOf(adapter)), 0, 0)
  /\ UNCHANGED <<status, hasSandbox, connectionState, connection>>
  /\ LifeFrame

\* delete(): await this.stop(); await this.connection?.close()
Minimal_delete ==
  /\ adapter = "minimal"
  /\ status' = St("Deleted")
  /\ \/ last' = Done("delete", "void", NoErr, 2 * MinimalStopSdkCalls, 1)
     \/ /\ connection
        /\ last' = Done("delete", "none", Err("SdkError"), 2, 1)
  /\ UNCHANGED <<hasSandbox, connectionState, connection>>
  /\ LifeFrame

Minimal_getInfo ==
  /\ adapter = "minimal"
  /\ last' = Done("getInfo", "info", NoErr, 0, 0)
  /\ UNCHANGED <<status, hasSandbox, connectionState, connection>>
  /\ LifeFrame

\* close(): await this.connection?.close()
Minimal_close ==
  /\ adapter = "minimal"
  /\ \/ last' = Done("close", "void", NoErr, MinimalStopSdkCalls, 0)
     \/ /\ connection
        /\ last' = Done("close", "none", Err("SdkError"), 1, 0)
  /\ UNCHANGED <<status, hasSandbox, connectionState, connection>>
  /\ LifeFrame

\* execute(): throws without a connection, else connection.execute(..) and
\* exitCode: result.exitCode
Minimal_execute ==
  /\ adapter = "minimal"
  /\ \/ /\ ~connection
        /\ last' = Done("execute", "none", Err("Error"), 0, 0)
     \/ /\ connection
        /\ \/ \E e \in ExitCodes : last' = Done("execute", Executed(e, e), NoErr, 1, 0)
           \/ last' = Done("execute", "none", Err("SdkError"), 1, 0)
  /\ UNCHANGED <<status, hasSandbox, connectionState, connection>>
  /\ LifeFrame

----------------------------------------------------------------------------
(* FallbackAdapter / NoPolyfillAdapter of the unit tests: every lifecycle  *)
(* method is an empty body                                                 *)

Fallback_lifecycle ==
  /\ adapter = "fallback"
  /\ \E op \in {"create", "start", "stop", "pause", "resume", "delete", "close", "getInfo"} :
       last' = Done(op, IF op = "getInfo" THEN "info" ELSE "void", NoErr, 0, 0)
  /\ UNCHANGED <<status, hasSandbox, connectionState, connection>>
  /\ LifeFrame

----------------------------------------------------------------------------
(* Specification of the lifecycle *)

Init ==
  /\ adapter \in Adapters
  /\ hasPolyfill \in (IF adapter = "fallback" THEN BOOLEAN ELSE {TRUE})
  /\ hasFactory \in (IF adapter = "minimal" THEN BOOLEAN ELSE {FALSE})
  /\ status = St("Creating")
  /\ connectionState = "disconnected"
  /\ hasSandbox = FALSE
  /\ connection = FALSE
  /\ last = NoCall
  /\ wpc = "idle" /\ now = 0 /\ timeoutMs = 0 /\ pingLog = <<>> /\ sleepLog = <<>>
  /\ outstanding = 0 /\ pingTime = 0 /\ werror = NoErr
  /\ fs = <<>> /\ fcall = <<>> /\ fresults = <<>> /\ fattempts = <<>> /\ inflight = 0
  /\ execCalls = 0 /\ fret = <<>>
  /\ gen = GenIdle /\ genPulls = 0 /\ genReads = <<>> /\ genChunks = <<>>
  /\ xs = XsIdle /\ xlog = <<>>
  /\ mlog = <<>> /\ srch = NoSearch
  /\ sdkInst = NoInst /\ pending = {}

Next ==
  \/ OpenSandbox_create \/ OpenSandbox_connect \/ OpenSandbox_start
  \/ OpenSandbox_stop \/ OpenSandbox_delete \/ OpenSandbox_pause
  \/ OpenSandbox_resume \/ OpenSandbox_getInfo \/ OpenSandbox_close
  \/ OpenSandbox_executeBackground \/ OpenSandbox_interrupt \/ OpenSandbox_ping
  \/ OpenSandbox_getMetrics \/ OpenSandbox_renewExpiration
  \/ OpenSandbox_execute \/ OpenSandbox_executeStream
  \/ FastGPT_getInfo \/ FastGPT_create \/ FastGPT_start \/ FastGPT_stop
  \/ FastGPT_pause \/ FastGPT_resume \/ FastGPT_delete \/ FastGPT_close
  \/ FastGPT_ping \/ FastGPT_execute
  \/ Base_executeBackground \/ Base_interrupt \/ Base_ping
  \/ Minimal_create \/ Minimal_connect \/ Minimal_start \/ Minimal_stop
  \/ Minimal_pause \/ Minimal_resume \/ Minimal_delete \/ Minimal_getInfo
  \/ Minimal_close \/ Minimal_execute
  \/ Fallback_lifecycle

Spec == Init /\ [][Next]_vars

----------------------------------------------------------------------------
(* BaseSandboxAdapter.waitUntilReady(timeoutMs): the poll loop, one action *)
(* per await.  Time is in ms and `now` is Date.now() - startTime.          *)

\* const checkInterval = 1000
checkInterval == 1000

\* largest whole-second timeout a call is given
MaxTimeoutSeconds == 3

TimeoutChoices == {-1, 0, 50} \cup {1000 * k : k \in 1..MaxTimeoutSeconds}

\* how long one ping() takes, and how late a timer may fire
PingDurations == {0, 300}
TimerLateness == {0, 20}

WaitFrame == UNCHANGED <<lifeVars, fileVars, streamVars, execVars, mockVars, raceVars>>

\* new SandboxReadyTimeoutError(this.id, timeoutMs)
SandboxReadyTimeoutError(id, t) ==
  [kind |-> "SandboxReadyTimeoutError", id |-> id, timeoutMs |-> t]

\* what this.ping() can do on this adapter: the base ping of an adapter with
\* no polyfill service throws, every other ping answers a boolean
PingResults ==
  IF adapter \in {"minimal", "fallback"} /\ ~hasPolyfill
    THEN {"throw"}
    ELSE {"true", "false"}

\* mutant: the loop condition admits the instant of the deadline
DeadlineOpen_Inclusive == now <= timeoutMs

\* the loop condition: Date.now() - startTime < timeoutMs
DeadlineOpen == now < timeoutMs

\* mutant: the interval grows with the attempt number
SleepInterval_Backoff(attempt) == checkInterval * attempt

\* await this.sleep(checkInterval): the argument of the sleep after the
\* attempt-th ping
SleepInterval(attempt) == checkInterval

\* entry: const startTime = Date.now()
waitUntilReady ==
  /\ wpc \in {"idle", "resolved", "rejected"}
  /\ \E t \in TimeoutChoices : timeoutMs' = t
  /\ wpc' = "check"
  /\ now' = 0
  /\ pingLog' = <<>>
  /\ sleepLog' = <<>>
  /\ pingTime' = 0
  /\ werror' = NoErr
  /\ UNCHANGED outstanding
  /\ WaitFrame

\* mutant: falling out of the loop returns instead of throwing
Wait_check_ReturnsOnTimeout ==
  /\ wpc = "check"
  /\ IF DeadlineOpen
       THEN /\ wpc' = "pinging"
            /\ outstanding' = outstanding + 1
       ELSE /\ wpc' = "resolved"
            /\ UNCHANGED outstanding
  /\ UNCHANGED <<now, timeoutMs, pingLog, sleepLog, pingTime, werror>>
  /\ WaitFrame

\* while (...) { this.ping() is called }  or  throw SandboxReadyTimeoutError
Wait_check ==
  /\ wpc = "check"
  /\ IF DeadlineOpen
       THEN /\ wpc' = "pinging"
            /\ outstanding' = outstanding + 1
            /\ UNCHANGED werror
       ELSE /\ wpc' = "rejected"
            /\ werror' = SandboxReadyTimeoutError(IdOf(adapter), timeoutMs)
            /\ UNCHANGED outstanding
  /\ UNCHANGED <<now, timeoutMs, pingLog, sleepLog, pingTime>>
  /\ WaitFrame

\* mutant: `if (isReady) return` is only looked at after the sleep
Wait_pingReturns_SleepsFirst ==
  /\ wpc = "pinging"
  /\ \E d \in PingDurations, r \in PingResults :
       /\ now' = now + d
       /\ pingTime' = pingTime + d
       /\ pingLog' = Append(pingLog, r)
       /\ outstanding' = outstanding - 1
       /\ IF r = "throw"
            THEN /\ wpc' = "rejected"
                 /\ werror' = requirePolyfillService("ping")
                 /\ UNCHANGED sleepLog
            ELSE /\ wpc' = "sleeping"
                 /\ sleepLog' = Append(sleepLog, SleepInterval(Len(pingLog) + 1))
                 /\ UNCHANGED werror
  /\ UNCHANGED timeoutMs
  /\ WaitFrame

\* const isReady = await this.ping(); if (isReady) return; this.sleep(..) is called
Wait_pingReturns ==
  /\ wpc = "pinging"
  /\ \E d \in PingDurations, r \in PingResults :
       /\ now' = now + d
       /\ pingTime' = pingTime + d
       /\ pingLog' = Append(pingLog, r)
       /\ outstanding' = outstanding - 1
       /\ CASE r = "throw" ->
                 /\ wpc' = "rejected"
                 /\ werror' = requirePolyfillService("ping")
                 /\ UNCHANGED sleepLog
            [] r = "true" ->
                 /\ wpc' = "resolved"
                 /\ UNCHANGED <<werror, sleepLog>>
            [] OTHER ->
                 /\ wpc' = "sleeping"
                 /\ sleepLog' = Append(sleepLog, SleepInterval(Len(pingLog) + 1))
                 /\ UNCHANGED werror
  /\ UNCHANGED timeoutMs
  /\ WaitFrame

\* the timer of sleep(ms) fires: setTimeout never fires early
Wait_sleepReturns ==
  /\ wpc = "sleeping"
  /\ \E late \in TimerLateness : now' = now + sleepLog[Len(sleepLog)] + late
  /\ wpc' = "check"
  /\ UNCHANGED <<timeoutMs, pingLog, sleepLog, outstanding, pingTime, werror>>
  /\ WaitFrame

InitWait ==
  /\ adapter \in Adapters
  /\ hasPolyfill \in (IF adapter = "fallback" THEN BOOLEAN ELSE {TRUE})
  /\ hasFactory = FALSE
  /\ status = St("Creating")
  /\ connectionState = "disconnected"
  /\ hasSandbox = FALSE
  /\ connection = FALSE
  /\ last = NoCall
  /\ wpc = "idle" /\ now = 0 /\ timeoutMs = 0 /\ pingLog = <<>> /\ sleepLog = <<>>
  /\ outstanding = 0 /\ pingTime = 0 /\ werror = NoErr
  /\ fs = <<>> /\ fcall = <<>> /\ fresults = <<>> /\ fattempts = <<>> /\ inflight = 0
  /\ execCalls = 0 /\ fret = <<>>
  /\ gen = GenIdle /\ genPulls = 0 /\ genReads = <<>> /\ genChunks = <<>>
  /\ xs = XsIdle /\ xlog = <<>>
  /\ mlog = <<>> /\ srch = NoSearch
  /\ sdkInst = NoInst /\ pending = {}

NextWait == waitUntilReady \/ Wait_check \/ Wait_pingReturns \/ Wait_sleepReturns

SpecWait == InitWait /\ [][NextWait]_vars

\* the event loop runs every continuation that is ready: a started ping
\* completes, a set timer fires, the loop condition is evaluated
SpecWaitFair ==
  /\ InitWait
  /\ [][NextWait]_vars
  /\ WF_vars(Wait_check)
  /\ WF_vars(Wait_pingReturns)
  /\ WF_vars(Wait_sleepReturns)

----------------------------------------------------------------------------
(* Batch file operations of BaseSandboxAdapter over the polyfill service.  *)
(* Strings that the code parses are sequences of one-character strings.    *)

Paths == {"/a", "/b"}

\* longest batch a call is given
MaxBatch == 2

\* file contents (byte sequences)
Hi == <<104, 105>>
Bin == <<0, 255>>

Missing == [exists |-> FALSE, content |-> <<>>]
File(c) == [exists |-> TRUE, content |-> c]

FileFrame == UNCHANGED <<lifeVars, waitVars, streamVars, execVars, mockVars, raceVars>>

\* arguments of a polyfill read: readFile(path) when not ranged, else
\* readFileRange(path, start, end) with end undefined when hasEnd is false
NoArgs == [ranged |-> FALSE, start |-> 0, hasEnd |-> FALSE, end |-> 0]

\* chunks: what reader.read() has delivered so far; data: the bytes handed to
\* the polyfill write; caller: who called writeFiles
Idle == [op |-> "idle", items |-> <<>>, range |-> <<>>, i |-> 0, pc |-> "idle",
         args |-> NoArgs, chunks |-> <<>>, data |-> <<>>, caller |-> "direct"]

NoRet == [op |-> "none", input |-> <<>>, range |-> <<>>, results |-> <<>>,
          err |-> NoErr, delegated |-> FALSE, exec |-> 0, attempted |-> <<>>]

\* all sequences over S of length at most n
SeqsUpTo(S, n) == UNION {[1..k -> S] : k \in 0..n}

\* ---- the range option: "<start>-<end>", parsed as the code parses it ----

DigitChars == {"0", "1", "2", "3", "4", "5", "6", "7", "8", "9"}

DigitVal(c) ==
  CASE c = "0" -> 0 [] c = "1" -> 1 [] c = "2" -> 2 [] c = "3" -> 3 [] c = "4" -> 4
    [] c = "5" -> 5 [] c = "6" -> 6 [] c = "7" -> 7 [] c = "8" -> 8 [] c = "9" -> 9

\* String.prototype.split('-')
RECURSIVE SplitDash(_)
SplitDash(s) ==
  IF s = <<>> THEN << <<>> >>
  ELSE LET rest == SplitDash(Tail(s)) IN
       IF Head(s) = "-"
         THEN << <<>> >> \o rest
         ELSE << <<Head(s)>> \o rest[1] >> \o Tail(rest)

RECURSIVE SkipSpaces(_)
SkipSpaces(s) ==
  IF s # <<>> /\ Head(s) = " " THEN SkipSpaces(Tail(s)) ELSE s

\* value of the longest prefix of digits of s, continuing from acc
RECURSIVE DigitRun(_, _)
DigitRun(s, acc) ==
  IF s # <<>> /\ Head(s) \in DigitChars
    THEN DigitRun(Tail(s), 10 * acc + DigitVal(Head(s)))
    ELSE acc

\* Number.parseInt(s, 10): leading whitespace, an optional sign, then the
\* longest run of digits; NaN when there is no digit
parseInt(s) ==
  LET t == SkipSpaces(s)
      signed == t # <<>> /\ Head(t) \in {"+", "-"}
      u == IF signed THEN Tail(t) ELSE t
      sign == IF signed /\ Head(t) = "-" THEN -1 ELSE 1
  IN IF u # <<>> /\ Head(u) \in DigitChars
       THEN [nan |-> FALSE, val |-> sign * DigitRun(u, 0)]
       ELSE [nan |-> TRUE, val |-> 0]

\* mutant: the end of the range is taken as inclusive
ParseRange_InclusiveEnd(range) ==
  LET parts == SplitDash(range)
      startValue == parts[1]
      hasEnd == Len(parts) >= 2 /\ parts[2] # <<>>
      start == parseInt(startValue)
      end == IF hasEnd THEN parseInt(parts[2]) ELSE [nan |-> FALSE, val |-> 0]
  IN [invalid |-> start.nan \/ (hasEnd /\ end.nan),
      start |-> start.val, hasEnd |-> hasEnd, end |-> end.val + 1]

\* readFiles: const [startValue, endValue] = options.range.split('-'); ...
\* the outcome of the range handling of one item
ParseRange(range) ==
  LET parts == SplitDash(range)
      startValue == parts[1]
      hasEnd == Len(parts) >= 2 /\ parts[2] # <<>>     \* endValue is truthy
      start == parseInt(startValue)
      end == IF hasEnd THEN parseInt(parts[2]) ELSE [nan |-> FALSE, val |-> 0]
  IN [invalid |-> start.nan \/ (hasEnd /\ end.nan),
      start |-> start.val, hasEnd |-> hasEnd, end |-> end.val]

\* what the loop body hands to the polyfill read for a range option
ReadArgs(range) ==
  IF range = <<>> THEN NoArgs
  ELSE [ranged |-> TRUE, start |-> ParseRange(range).start,
        hasEnd |-> ParseRange(range).hasEnd, end |-> ParseRange(range).end]

\* the range options a call is given; <<>> is no range (undefined or '')
RangeChoices ==
  { <<>>, <<"0", "-", "1">>, <<"1", "-">>, <<"x", "-", "1">>,
    <<"1", "-", "0">>, <<"1", "x", "-", "2">>, <<"0", "-", "1", "-", "2">>,
    <<"-", "1", "-", "2">> }

\* ---- CommandPolyfillService (not in the source tree) ----

Min(a, b) == IF a < b THEN a ELSE b

\* bytes [start, end) of c
Slice(c, start, end) ==
  IF start >= end \/ start >= Len(c) THEN <<>> ELSE SubSeq(c, start + 1, Min(end, Len(c)))

\* readFile(path) / readFileRange(path, start, end): the command may fail,
\* a missing file is an error or empty content, otherwise the bytes asked for
PolyfillRead(f, a) ==
  {[ok |-> FALSE, content |-> <<>>]} \cup
  (IF ~f.exists
     THEN {[ok |-> TRUE, content |-> <<>>]}
     ELSE {[ok |-> TRUE,
            content |-> IF ~a.ranged THEN f.content
                        ELSE Slice(f.content, a.start,
                                   IF a.hasEnd THEN a.end ELSE Len(f.content))]})

\* writeFile / writeTextFile(path, data): the number of bytes written, or a throw
PolyfillWrite(data) ==
  {[ok |-> FALSE, bytesWritten |-> 0], [ok |-> TRUE, bytesWritten |-> Len(data)]}

\* deleteFiles(paths): one entry {path, success, error} per path, in order;
\* the entry for one path
PolyfillDelete(path, f) ==
  {[path |-> path, success |-> FALSE, error |-> "Error"]} \cup
  (IF f.exists THEN {[path |-> path, success |-> TRUE, error |-> "undefined"]} ELSE {})

\* ---- inputs ----

WriteKinds == {"string", "Uint8Array", "ArrayBuffer", "Blob", "ReadableStream"}

\* the chunks a ReadableStream payload delivers
StreamChunks == << <<0>>, <<255>> >>

RECURSIVE Concat(_)
Concat(chunks) == IF chunks = <<>> THEN <<>> ELSE Head(chunks) \o Concat(Tail(chunks))

\* the bytes an entry's data amounts to: a string's UTF-8 bytes, the bytes of
\* an array / buffer / blob, or the stream's chunks combined in order
Payload(kind) ==
  CASE kind = "string" -> Hi
    [] kind = "ReadableStream" -> Concat(StreamChunks)
    [] OTHER -> Bin

\* FileWriteEntry: fails says that reading the stream rejects
WriteEntries ==
  {[path |-> p, kind |-> k, fails |-> f] :
     p \in Paths, k \in WriteKinds, f \in BOOLEAN} \
  {e \in [path : Paths, kind : WriteKinds, fails : BOOLEAN] :
     e.fails /\ e.kind # "ReadableStream"}

PathsOf(items) == [k \in 1..Len(items) |-> items[k].path]

\* ---- readFiles ----

\* readFiles(paths, options): requirePolyfillService, then the loop starts
readFiles ==
  /\ fcall.op = "idle" /\ fret = NoRet /\ gen.pc = "idle"
  /\ \E paths \in SeqsUpTo(Paths, MaxBatch), r \in RangeChoices :
       IF requirePolyfillService("readFiles") # NoErr
         THEN /\ fret' = [NoRet EXCEPT !.op = "readFiles", !.input = paths,
                                       !.err = requirePolyfillService("readFiles")]
              /\ UNCHANGED <<fcall, fresults, fattempts, execCalls>>
         ELSE /\ fcall' = [op |-> "readFiles", items |-> paths, range |-> r,
                           i |-> 1, pc |-> "loop", args |-> NoArgs,
                           chunks |-> <<>>, data |-> <<>>, caller |-> "direct"]
              /\ fresults' = <<>>
              /\ fattempts' = <<>>
              /\ execCalls' = 0
              /\ fret' = NoRet
  /\ UNCHANGED <<fs, inflight>>
  /\ FileFrame

\* the entry pushed by the catch block of readFiles
ReadFailure(path) == [path |-> path, content |-> <<>>, error |-> "Error"]

\* mutant: the read is started and the loop goes on without awaiting it
Read_item_NoAwait ==
  /\ fcall.op = "readFiles" /\ fcall.pc = "loop" /\ fcall.i <= Len(fcall.items)
  /\ IF fcall.range # <<>> /\ ParseRange(fcall.range).invalid
       THEN /\ fresults' = Append(fresults, ReadFailure(fcall.items[fcall.i]))
            /\ fattempts' = Append(fattempts, "failed")
            /\ fcall' = [fcall EXCEPT !.i = @ + 1]
            /\ UNCHANGED <<inflight, execCalls>>
       ELSE /\ fcall' = [fcall EXCEPT !.i = @ + 1, !.args = ReadArgs(fcall.range)]
            /\ fresults' = Append(fresults, [path |-> fcall.items[fcall.i],
                                             content |-> <<>>, error |-> "null"])
            /\ fattempts' = Append(fattempts, "ok")
            /\ inflight' = inflight + 1
            /\ execCalls' = execCalls + 1
  /\ UNCHANGED <<fs, fret>>
  /\ FileFrame

\* one iteration up to the await: the range is parsed, an invalid range throws
\* into the catch, otherwise the polyfill read is issued
Read_item ==
  /\ fcall.op = "readFiles" /\ fcall.pc = "loop" /\ fcall.i <= Len(fcall.items)
  /\ IF fcall.range # <<>> /\ ParseRange(fcall.range).invalid
       THEN /\ fresults' = Append(fresults, ReadFailure(fcall.items[fcall.i]))
            /\ fattempts' = Append(fattempts, "failed")
            /\ fcall' = [fcall EXCEPT !.i = @ + 1]
            /\ UNCHANGED <<inflight, execCalls>>
       ELSE /\ fcall' = [fcall EXCEPT !.pc = "await", !.args = ReadArgs(fcall.range)]
            /\ inflight' = inflight + 1
            /\ execCalls' = execCalls + 1
            /\ UNCHANGED <<fresults, fattempts>>
  /\ UNCHANGED <<fs, fret>>
  /\ FileFrame

\* mutant: the catch block pushes nothing for a failed item
Read_itemReturns_DropsFailure ==
  /\ fcall.op = "readFiles" /\ fcall.pc = "await"
  /\ \E o \in PolyfillRead(fs[fcall.items[fcall.i]], fcall.args) :
       /\ fresults' = IF o.ok
                        THEN Append(fresults, [path |-> fcall.items[fcall.i],
                                               content |-> o.content, error |-> "null"])
                        ELSE fresults
       /\ fattempts' = Append(fattempts, IF o.ok THEN "ok" ELSE "failed")
  /\ inflight' = inflight - 1
  /\ fcall' = [fcall EXCEPT !.i = @ + 1, !.pc = "loop"]
  /\ UNCHANGED <<fs, execCalls, fret>>
  /\ FileFrame

\* mutant: the first failed item rejects the whole call
Read_itemReturns_Aborts ==
  /\ fcall.op = "readFiles" /\ fcall.pc = "await"
  /\ inflight' = inflight - 1
  /\ \E o \in PolyfillRead(fs[fcall.items[fcall.i]], fcall.args) :
       IF o.ok
         THEN /\ fresults' = Append(fresults, [path |-> fcall.items[fcall.i],
                                               content |-> o.content, error |-> "null"])
              /\ fattempts' = Append(fattempts, "ok")
              /\ fcall' = [fcall EXCEPT !.i = @ + 1, !.pc = "loop"]
              /\ UNCHANGED fret
         ELSE /\ fret' = [NoRet EXCEPT !.op = "readFiles", !.input = fcall.items,
                                       !.err = Err("Error"), !.delegated = TRUE,
                                       !.exec = execCalls,
                                       !.attempted = fattempts]
              /\ fcall' = Idle
              /\ UNCHANGED <<fresults, fattempts>>
  /\ UNCHANGED <<fs, execCalls>>
  /\ FileFrame

\* the polyfill read completes: its content is pushed with error null, its
\* throw is caught and pushed as a failure entry
Read_itemReturns ==
  /\ fcall.op = "readFiles" /\ fcall.pc = "await"
  /\ \E o \in PolyfillRead(fs[fcall.items[fcall.i]], fcall.args) :
       /\ fresults' = IF o.ok
                        THEN Append(fresults, [path |-> fcall.items[fcall.i],
                                               content |-> o.content, error |-> "null"])
                        ELSE Append(fresults, ReadFailure(fcall.items[fcall.i]))
       /\ fattempts' = Append(fattempts, IF o.ok THEN "ok" ELSE "failed")
  /\ inflight' = inflight - 1
  /\ fcall' = [fcall EXCEPT !.i = @ + 1, !.pc = "loop"]
  /\ UNCHANGED <<fs, execCalls, fret>>
  /\ FileFrame

\* return results
Read_return ==
  /\ fcall.op = "readFiles" /\ fcall.pc = "loop" /\ fcall.i > Len(fcall.items)
  /\ fret' = [op |-> "readFiles", input |-> fcall.items, range |-> fcall.range,
              results |-> fresults, err |-> NoErr, delegated |-> TRUE, exec |-> execCalls,
              attempted |-> fattempts]
  /\ fcall' = Idle
  /\ fresults' = <<>> /\ fattempts' = <<>> /\ execCalls' = 0
  /\ UNCHANGED <<fs, inflight>>
  /\ FileFrame

\* ---- writeFiles ----

writeFiles ==
  /\ fcall.op = "idle" /\ fret = NoRet /\ gen.pc = "idle"
  /\ \E entries \in SeqsUpTo(WriteEntries, MaxBatch) :
       IF requirePolyfillService("writeFiles") # NoErr
         THEN /\ fret' = [NoRet EXCEPT !.op = "writeFiles", !.input = PathsOf(entries),
                                       !.err = requirePolyfillService("writeFiles")]
              /\ UNCHANGED <<fcall, fresults, fattempts, execCalls>>
         ELSE /\ fcall' = [op |-> "writeFiles", items |-> entries, range |-> <<>>,
                           i |-> 1, pc |-> "loop", args |-> NoArgs,
                           chunks |-> <<>>, data |-> <<>>, caller |-> "direct"]
              /\ fresults' = <<>>
              /\ fattempts' = <<>>
              /\ execCalls' = 0
              /\ fret' = NoRet
  /\ UNCHANGED <<fs, inflight>>
  /\ FileFrame

\* the entry pushed by the catch block of writeFiles
WriteFailure(path) == [path |-> path, bytesWritten |-> 0, error |-> "Error"]

\* one iteration up to the first await: a string / array / buffer / blob is
\* handed to the polyfill write, a ReadableStream gets a reader
Write_item ==
  /\ fcall.op = "writeFiles" /\ fcall.pc = "loop" /\ fcall.i <= Len(fcall.items)
  /\ IF fcall.items[fcall.i].kind = "ReadableStream"
       THEN /\ fcall' = [fcall EXCEPT !.pc = "drain", !.chunks = <<>>]
            /\ UNCHANGED <<inflight, execCalls>>
       ELSE /\ fcall' = [fcall EXCEPT !.pc = "await",
                           !.data = IF fcall.caller = "writeFileStream" THEN @
                                    ELSE Payload(fcall.items[fcall.i].kind)]
            /\ inflight' = inflight + 1
            /\ execCalls' = execCalls + 1
  /\ UNCHANGED <<fs, fresults, fattempts, fret>>
  /\ FileFrame

\* mutant: every chunk is written as soon as it arrives
Write_streamRead_WritesPerChunk ==
  /\ fcall.op = "writeFiles" /\ fcall.pc = "drain"
  /\ LET e == fcall.items[fcall.i]
         k == Len(fcall.chunks)
     IN \/ /\ k < Len(StreamChunks)
           /\ fcall' = [fcall EXCEPT !.chunks = Append(@, StreamChunks[k + 1])]
           /\ execCalls' = execCalls + 1
           /\ UNCHANGED <<inflight, fresults, fattempts>>
        \/ /\ k = Len(StreamChunks) /\ ~e.fails
           /\ fresults' = Append(fresults, [path |-> e.path, bytesWritten |-> k,
                                            error |-> "null"])
           /\ fattempts' = Append(fattempts, "ok")
           /\ fcall' = [fcall EXCEPT !.i = @ + 1, !.pc = "loop"]
           /\ UNCHANGED <<inflight, execCalls>>
        \/ /\ e.fails
           /\ fresults' = Append(fresults, WriteFailure(e.path))
           /\ fattempts' = Append(fattempts, "failed")
           /\ fcall' = [fcall EXCEPT !.i = @ + 1, !.pc = "loop"]
           /\ UNCHANGED <<inflight, execCalls>>
  /\ UNCHANGED <<fs, fret>>
  /\ FileFrame

\* await reader.read() in the ReadableStream branch: a chunk is pushed, or the
\* stream is done and the combined bytes are handed to the polyfill write, or
\* the read rejects into the catch
Write_streamRead ==
  /\ fcall.op = "writeFiles" /\ fcall.pc = "drain"
  /\ LET e == fcall.items[fcall.i]
         k == Len(fcall.chunks)
     IN \/ /\ k < Len(StreamChunks)
           /\ fcall' = [fcall EXCEPT !.chunks = Append(@, StreamChunks[k + 1])]
           /\ UNCHANGED <<inflight, execCalls, fresults, fattempts>>
        \/ /\ k = Len(StreamChunks) /\ ~e.fails
           /\ fcall' = [fcall EXCEPT !.pc = "await", !.data = Concat(fcall.chunks)]
           /\ inflight' = inflight + 1
           /\ execCalls' = execCalls + 1
           /\ UNCHANGED <<fresults, fattempts>>
        \/ /\ e.fails
           /\ fresults' = Append(fresults, WriteFailure(e.path))
           /\ fattempts' = Append(fattempts, "failed")
           /\ fcall' = [fcall EXCEPT !.i = @ + 1, !.pc = "loop"]
           /\ UNCHANGED <<inflight, execCalls>>
  /\ UNCHANGED <<fs, fret>>
  /\ FileFrame

\* writeTextFile / writeFile completes: bytesWritten with error null, or the
\* throw is caught and pushed as a failure entry
Write_itemReturns ==
  /\ fcall.op = "writeFiles" /\ fcall.pc = "await"
  /\ LET e == fcall.items[fcall.i] IN
     \E o \in PolyfillWrite(fcall.data) :
       IF o.ok
         THEN /\ fresults' = Append(fresults, [path |-> e.path,
                                               bytesWritten |-> o.bytesWritten,
                                               error |-> "null"])
              /\ fattempts' = Append(fattempts, "ok")
              /\ fs' = [fs EXCEPT ![e.path] = File(fcall.data)]
         ELSE /\ fresults' = Append(fresults, WriteFailure(e.path))
              /\ fattempts' = Append(fattempts, "failed")
              /\ UNCHANGED fs
  /\ inflight' = inflight - 1
  /\ fcall' = [fcall EXCEPT !.i = @ + 1, !.pc = "loop"]
  /\ UNCHANGED <<execCalls, fret>>
  /\ FileFrame

\* return results; writeFileStream awaits them and resolves without looking
Write_return ==
  /\ fcall.op = "writeFiles" /\ fcall.pc = "loop" /\ fcall.i > Len(fcall.items)
  /\ fret' = [op |-> IF fcall.caller = "writeFileStream" THEN "writeFileStream"
                     ELSE "writeFiles",
              input |-> PathsOf(fcall.items), range |-> <<>>,
              results |-> IF fcall.caller = "writeFileStream" THEN <<>> ELSE fresults,
              err |-> NoErr, delegated |-> TRUE, exec |-> execCalls,
              attempted |-> fattempts]
  /\ fcall' = Idle
  /\ fresults' = <<>> /\ fattempts' = <<>> /\ execCalls' = 0
  /\ UNCHANGED <<fs, inflight>>
  /\ FileFrame

\* ---- writeFileStream ----

\* writeFileStream(path, stream): const reader = stream.getReader()
writeFileStream ==
  /\ fcall.op = "idle" /\ fret = NoRet /\ gen.pc = "idle"
  /\ \E p \in Paths, f \in BOOLEAN :
       fcall' = [Idle EXCEPT !.op = "writeFileStream", !.pc = "drain", !.i = 1,
                             !.items = <<[path |-> p, kind |-> "ReadableStream",
                                          fails |-> f]>>]
  /\ fresults' = <<>>
  /\ fattempts' = <<>>
  /\ execCalls' = 0
  /\ UNCHANGED <<fs, inflight, fret>>
  /\ FileFrame

\* await reader.read(): a chunk is pushed, or the read rejects and so does
\* writeFileStream, or the stream is done and this.writeFiles([{path, data:
\* combined}]) is called
WriteStream_read ==
  /\ fcall.op = "writeFileStream" /\ fcall.pc = "drain"
  /\ LET e == fcall.items[1]
         k == Len(fcall.chunks)
     IN \/ /\ k < Len(StreamChunks)
           /\ fcall' = [fcall EXCEPT !.chunks = Append(@, StreamChunks[k + 1])]
           /\ UNCHANGED fret
        \/ /\ e.fails
           /\ fret' = [NoRet EXCEPT !.op = "writeFileStream", !.input = <<e.path>>,
                                    !.err = Err("Error")]
           /\ fcall' = Idle
        \/ /\ k = Len(StreamChunks) /\ ~e.fails
           /\ IF requirePolyfillService("writeFiles") # NoErr
                THEN /\ fret' = [NoRet EXCEPT !.op = "writeFileStream",
                                              !.input = <<e.path>>,
                                              !.err = requirePolyfillService("writeFiles")]
                     /\ fcall' = Idle
                ELSE /\ fcall' = [fcall EXCEPT
                                    !.op = "writeFiles", !.pc = "loop", !.i = 1,
                                    !.caller = "writeFileStream",
                                    !.data = Concat(fcall.chunks),
                                    !.items = <<[path |-> e.path, kind |-> "Uint8Array",
                                                 fails |-> FALSE]>>]
                     /\ UNCHANGED fret
  /\ UNCHANGED <<fs, fresults, fattempts, inflight, execCalls>>
  /\ FileFrame

\* ---- deleteFiles ----

deleteFiles ==
  /\ fcall.op = "idle" /\ fret = NoRet /\ gen.pc = "idle"
  /\ \E paths \in SeqsUpTo(Paths, MaxBatch) :
       IF requirePolyfillService("deleteFiles") # NoErr
         THEN /\ fret' = [NoRet EXCEPT !.op = "deleteFiles", !.input = paths,
                                       !.err = requirePolyfillService("deleteFiles")]
              /\ UNCHANGED <<fcall, fresults, fattempts, execCalls>>
         ELSE /\ fcall' = [op |-> "deleteFiles", items |-> paths, range |-> <<>>,
                           i |-> 1, pc |-> "loop", args |-> NoArgs,
                           chunks |-> <<>>, data |-> <<>>, caller |-> "direct"]
              /\ fresults' = <<>>
              /\ fattempts' = <<>>
              /\ execCalls' = 0
              /\ fret' = NoRet
  /\ UNCHANGED <<fs, inflight>>
  /\ FileFrame

\* polyfillService.deleteFiles handles the next path with one command
Delete_item ==
  /\ fcall.op = "deleteFiles" /\ fcall.pc = "loop" /\ fcall.i <= Len(fcall.items)
  /\ LET p == fcall.items[fcall.i] IN
     \E r \in PolyfillDelete(p, fs[p]) :
       /\ fresults' = Append(fresults, r)
       /\ fattempts' = Append(fattempts, IF r.success THEN "ok" ELSE "failed")
       /\ fs' = IF r.success THEN [fs EXCEPT ![p] = Missing] ELSE fs
  /\ execCalls' = execCalls + 1
  /\ fcall' = [fcall EXCEPT !.i = @ + 1]
  /\ UNCHANGED <<inflight, fret>>
  /\ FileFrame

\* polyfillResults.map(r => ({path: r.path, success: r.success, error: r.error || null}))
MapDeleteResults(rs) ==
  [k \in 1..Len(rs) |->
     [path |-> rs[k].path, success |-> rs[k].success,
      error |-> IF rs[k].error = "undefined" THEN "null" ELSE rs[k].error]]

Delete_return ==
  /\ fcall.op = "deleteFiles" /\ fcall.pc = "loop" /\ fcall.i > Len(fcall.items)
  /\ fret' = [op |-> "deleteFiles", input |-> fcall.items, range |-> <<>>,
              results |-> MapDeleteResults(fresults),
              err |-> NoErr, delegated |-> TRUE, exec |-> execCalls,
              attempted |-> fattempts]
  /\ fcall' = Idle
  /\ fresults' = <<>> /\ fattempts' = <<>> /\ execCalls' = 0
  /\ UNCHANGED <<fs, inflight>>
  /\ FileFrame

\* ---- operations that only delegate to the polyfill service ----

DelegatedOps ==
  {"moveFiles", "replaceContent", "createDirectories", "deleteDirectories",
   "listDirectory", "getFileInfo", "setPermissions", "search", "getMetrics"}

\* operations among them that change files
MutatingOps ==
  {"moveFiles", "replaceContent", "createDirectories", "deleteDirectories",
   "setPermissions"}

\* mutant: readFileStream reports the feature of readFiles
FeatureArg_StreamAsRead(op) ==
  IF op = "readFileStream" THEN "readFiles" ELSE op

\* the feature literal each operation hands to requirePolyfillService
FeatureArg(op) ==
  CASE op = "moveFiles"         -> "moveFiles"
    [] op = "replaceContent"    -> "replaceContent"
    [] op = "createDirectories" -> "createDirectories"
    [] op = "deleteDirectories" -> "deleteDirectories"
    [] op = "listDirectory"     -> "listDirectory"
    [] op = "readFileStream"    -> "readFileStream"
    [] op = "getFileInfo"       -> "getFileInfo"
    [] op = "setPermissions"    -> "setPermissions"
    [] op = "search"            -> "search"
    [] op = "getMetrics"        -> "getMetrics"

\* OpenSandboxAdapter overrides getMetrics natively
NativeOverride(a, op) == a = "opensandbox" /\ op = "getMetrics"

FsStates == [Paths -> {Missing, File(Hi), File(Bin)}]

\* moveFiles .. getMetrics: requirePolyfillService(feature, ..), then the
\* polyfill service's method, whose failure propagates
Base_delegate ==
  /\ fcall.op = "idle" /\ fret = NoRet /\ gen.pc = "idle"
  /\ \E op \in DelegatedOps :
       /\ ~NativeOverride(adapter, op)
       /\ IF requirePolyfillService(FeatureArg(op)) # NoErr
            THEN /\ fret' = [NoRet EXCEPT !.op = op,
                                          !.err = requirePolyfillService(FeatureArg(op))]
                 /\ UNCHANGED fs
            ELSE \E ok \in BOOLEAN :
                   /\ fret' = [NoRet EXCEPT !.op = op, !.delegated = TRUE, !.exec = 1,
                                            !.err = IF ok THEN NoErr
                                                    ELSE Err("CommandExecutionError")]
                   /\ IF op \in MutatingOps /\ ok
                        THEN fs' \in FsStates
                        ELSE UNCHANGED fs
  /\ UNCHANGED <<fcall, fresults, fattempts, inflight, execCalls>>
  /\ FileFrame

\* the caller has looked at the settled promise of its last call
Caller_takesResult ==
  /\ fcall.op = "idle" /\ fret # NoRet
  /\ fret' = NoRet
  /\ UNCHANGED <<fs, fcall, fresults, fattempts, inflight, execCalls>>
  /\ FileFrame

\* ---- readFileStream (an async generator: its body runs only inside next()) ----

\* const chunkSize = 64 * 1024
chunkSize == 65536

\* most full windows of a streamed file
MaxFullWindows == 2

\* sizes of the files that are streamed
StreamFileSizes ==
  {0, 1} \cup
  UNION {{k * chunkSize - 1, k * chunkSize, k * chunkSize + 1} : k \in 1..MaxFullWindows}

\* how this.getFileInfo([path]) can end: it rejects, its Map has no entry for
\* the path, the entry has no size, or the entry has the file's size
InfoOutcomes == {"rejects", "noEntry", "noSize", "size"}

DigitChar(d) ==
  CASE d = 0 -> "0" [] d = 1 -> "1" [] d = 2 -> "2" [] d = 3 -> "3" [] d = 4 -> "4"
    [] d = 5 -> "5" [] d = 6 -> "6" [] d = 7 -> "7" [] d = 8 -> "8" [] d = 9 -> "9"

\* a non-negative integer in a template literal: its decimal digits
RECURSIVE FormatNat(_)
FormatNat(n) ==
  IF n < 10 THEN <<DigitChar(n)>> ELSE Append(FormatNat(n \div 10), DigitChar(n % 10))

\* `${offset}-${end}`
FormatRange(offset, end) == FormatNat(offset) \o <<"-">> \o FormatNat(end)

\* mutant: the last window is not cut at the end of the file
WindowEnd_Unclamped(offset, size) == offset + chunkSize

\* const end = Math.min(offset + chunkSize, size)
WindowEnd(offset, size) == Min(offset + chunkSize, size)

\* the bytes a polyfill read with arguments a returns for a file of n bytes,
\* as the interval [lo, hi) of the file (CommandPolyfillService)
StreamRead(n, a) ==
  IF ~a.ranged THEN [lo |-> 0, hi |-> n]
  ELSE LET lo == Min(a.start, n)
           hi == Min(IF a.hasEnd THEN a.end ELSE n, n)
       IN [lo |-> lo, hi |-> IF hi < lo THEN lo ELSE hi]

StreamFrame ==
  UNCHANGED <<lifeVars, waitVars, execVars, mockVars, raceVars, fs, fcall, fresults,
              fattempts, execCalls, fret>>

\* the for loop at its condition with the given offset, fl commands being in
\* flight: readChunk(`${offset}-${end}`) calls this.readFiles([path], {range}),
\* which parses the range and issues the polyfill read; or the generator returns
Stream_loop(g, offset, fl) ==
  IF offset < g.size
    THEN LET range == FormatRange(offset, WindowEnd(offset, g.size)) IN
         IF ParseRange(range).invalid
           THEN /\ gen' = [g EXCEPT !.pc = "thrown", !.offset = offset,
                                    !.err = Err("Error")]
                /\ inflight' = fl
                /\ UNCHANGED genReads
           ELSE /\ gen' = [g EXCEPT !.pc = "reading", !.offset = offset]
                /\ genReads' = Append(genReads, ReadArgs(range))
                /\ inflight' = fl + 1
    ELSE /\ gen' = [g EXCEPT !.pc = "done", !.offset = offset]
         /\ inflight' = fl
         /\ UNCHANGED genReads

\* readFileStream(path): the generator object is created, no statement runs
readFileStream ==
  /\ fcall.op = "idle" /\ fret = NoRet /\ gen.pc = "idle"
  /\ \E n \in StreamFileSizes : gen' = [GenIdle EXCEPT !.pc = "created", !.n = n]
  /\ genPulls' = 0
  /\ genReads' = <<>>
  /\ genChunks' = <<>>
  /\ UNCHANGED inflight
  /\ StreamFrame

\* the consumer calls next(): the body starts (requirePolyfillService, then
\* getFileInfo is called) or resumes after the yield
Consumer_pull ==
  /\ gen.pc \in {"created", "yielded"}
  /\ genPulls' = genPulls + 1
  /\ IF gen.pc = "created"
       THEN IF requirePolyfillService(FeatureArg("readFileStream")) # NoErr
              THEN /\ gen' = [gen EXCEPT
                               !.pc = "thrown",
                               !.err = requirePolyfillService(FeatureArg("readFileStream"))]
                   /\ UNCHANGED <<genReads, inflight>>
              ELSE /\ gen' = [gen EXCEPT !.pc = "info"]
                   /\ inflight' = inflight + 1
                   /\ UNCHANGED genReads
       ELSE IF ~gen.sized
              THEN /\ gen' = [gen EXCEPT !.pc = "done"]
                   /\ UNCHANGED <<genReads, inflight>>
              ELSE Stream_loop(gen, gen.offset + chunkSize, inflight)
  /\ UNCHANGED genChunks
  /\ StreamFrame

\* mutant: a rejection of getFileInfo leaves the generator
Stream_infoReturns_Propagates ==
  /\ gen.pc = "info"
  /\ \E o \in InfoOutcomes :
       LET g == [gen EXCEPT !.info = o, !.sized = (o = "size"),
                            !.size = IF o = "size" THEN gen.n ELSE 0]
       IN CASE o = "size" -> Stream_loop(g, 0, inflight - 1)
            [] o = "rejects" ->
                 /\ gen' = [g EXCEPT !.pc = "thrown", !.err = Err("InfoError")]
                 /\ inflight' = inflight - 1
                 /\ UNCHANGED genReads
            [] OTHER ->
                 /\ gen' = [g EXCEPT !.pc = "reading"]
                 /\ genReads' = Append(genReads, ReadArgs(<<>>))
                 /\ inflight' = inflight
  /\ UNCHANGED <<genPulls, genChunks>>
  /\ StreamFrame

\* getFileInfo settles: with a numeric size the loop starts at offset 0,
\* otherwise (also after a rejection, which is swallowed) readChunk() is called
\* without a range
Stream_infoReturns ==
  /\ gen.pc = "info"
  /\ \E o \in InfoOutcomes :
       LET g == [gen EXCEPT !.info = o, !.sized = (o = "size"),
                            !.size = IF o = "size" THEN gen.n ELSE 0]
       IN IF o = "size"
            THEN Stream_loop(g, 0, inflight - 1)
            ELSE /\ gen' = [g EXCEPT !.pc = "reading"]
                 /\ genReads' = Append(genReads, ReadArgs(<<>>))
                 /\ inflight' = inflight
  /\ UNCHANGED <<genPulls, genChunks>>
  /\ StreamFrame

\* mutant: the next window is read ahead as soon as a chunk is yielded
Stream_readReturns_Prefetches ==
  /\ gen.pc = "reading"
  /\ \E ok \in BOOLEAN :
       IF ok
         THEN /\ genChunks' = Append(genChunks, StreamRead(gen.n, genReads[Len(genReads)]))
              /\ IF gen.sized /\ gen.offset + chunkSize < gen.size
                   THEN /\ gen' = [gen EXCEPT !.pc = "yielded"]
                        /\ genReads' = Append(genReads,
                             ReadArgs(FormatRange(gen.offset + chunkSize,
                                        WindowEnd(gen.offset + chunkSize, gen.size))))
                        /\ inflight' = inflight
                   ELSE /\ gen' = [gen EXCEPT !.pc = "yielded"]
                        /\ inflight' = inflight - 1
                        /\ UNCHANGED genReads
         ELSE /\ gen' = [gen EXCEPT !.pc = "thrown", !.err = Err("Error")]
              /\ inflight' = inflight - 1
              /\ UNCHANGED <<genChunks, genReads>>
  /\ UNCHANGED genPulls
  /\ StreamFrame

\* mutant: after a failed read the following window is still requested before
\* the error leaves the generator
Stream_readReturns_ReadsOn ==
  /\ gen.pc = "reading"
  /\ inflight' = inflight - 1
  /\ \E ok \in BOOLEAN :
       IF ok
         THEN /\ gen' = [gen EXCEPT !.pc = "yielded"]
              /\ genChunks' = Append(genChunks, StreamRead(gen.n, genReads[Len(genReads)]))
              /\ UNCHANGED genReads
         ELSE /\ gen' = [gen EXCEPT !.pc = "thrown", !.err = Err("Error")]
              /\ genReads' =
                   IF gen.sized /\ gen.offset + chunkSize < gen.size
                     THEN Append(genReads,
                            ReadArgs(FormatRange(gen.offset + chunkSize,
                                       WindowEnd(gen.offset + chunkSize, gen.size))))
                     ELSE genReads
              /\ UNCHANGED genChunks
  /\ UNCHANGED genPulls
  /\ StreamFrame

\* the read of readChunk settles: the content is yielded to the consumer, or
\* the error entry of readFiles is thrown out of the generator
Stream_readReturns ==
  /\ gen.pc = "reading"
  /\ inflight' = inflight - 1
  /\ \E ok \in BOOLEAN :
       IF ok
         THEN /\ gen' = [gen EXCEPT !.pc = "yielded"]
              /\ genChunks' = Append(genChunks, StreamRead(gen.n, genReads[Len(genReads)]))
         ELSE /\ gen' = [gen EXCEPT !.pc = "thrown", !.err = Err("Error")]
              /\ UNCHANGED genChunks
  /\ UNCHANGED <<genPulls, genReads>>
  /\ StreamFrame

\* the consumer leaves its for-await loop early: iterator.return()
Consumer_return ==
  /\ gen.pc \in {"created", "yielded"}
  /\ gen' = [gen EXCEPT !.pc = "closed"]
  /\ UNCHANGED <<genPulls, genReads, genChunks, inflight>>
  /\ StreamFrame

\* the finished generator is dropped
Stream_release ==
  /\ gen.pc \in {"done", "thrown", "closed"}
  /\ gen' = GenIdle
  /\ genPulls' = 0
  /\ genReads' = <<>>
  /\ genChunks' = <<>>
  /\ UNCHANGED inflight
  /\ StreamFrame

InitFiles ==
  /\ adapter \in Adapters
  /\ hasPolyfill \in (IF adapter = "fallback" THEN BOOLEAN ELSE {TRUE})
  /\ hasFactory = FALSE
  /\ status = St("Running")
  /\ connectionState = "disconnected"
  /\ hasSandbox = FALSE
  /\ connection = FALSE
  /\ last = NoCall
  /\ wpc = "idle" /\ now = 0 /\ timeoutMs = 0 /\ pingLog = <<>> /\ sleepLog = <<>>
  /\ outstanding = 0 /\ pingTime = 0 /\ werror = NoErr
  /\ fs = [p \in Paths |-> Missing]
  /\ fcall = Idle /\ fresults = <<>> /\ fattempts = <<>> /\ inflight = 0
  /\ execCalls = 0 /\ fret = NoRet
  /\ gen = GenIdle /\ genPulls = 0 /\ genReads = <<>> /\ genChunks = <<>>
  /\ xs = XsIdle /\ xlog = <<>>
  /\ mlog = <<>> /\ srch = NoSearch
  /\ sdkInst = NoInst /\ pending = {}

NextFiles ==
  \/ readFiles \/ Read_item \/ Read_itemReturns \/ Read_return
  \/ writeFiles \/ Write_item \/ Write_streamRead \/ Write_itemReturns \/ Write_return
  \/ writeFileStream \/ WriteStream_read
  \/ deleteFiles \/ Delete_item \/ Delete_return
  \/ Base_delegate \/ Caller_takesResult
  \/ readFileStream \/ Consumer_pull \/ Stream_infoReturns \/ Stream_readReturns
  \/ Consumer_return \/ Stream_release

SpecFiles == InitFiles /\ [][NextFiles]_vars

----------------------------------------------------------------------------
(* executeStream: the fallback of BaseSandboxAdapter over execute(), and   *)
(* the override of the test MockSandboxAdapter.                            *)

ExecFrame == UNCHANGED <<lifeVars, waitVars, fileVars, streamVars, mockVars, raceVars>>

\* adapters that inherit or replace the base executeStream (OpenSandboxAdapter
\* streams through its SDK)
ExecStreamAdapters == {"fastgpt", "minimal", "fallback", "mock"}

Commands == {"echo hi", "cat a > b"}

OptionChoices == {"none", "opts"}

HandlerNames == {"onStdout", "onStderr", "onComplete", "onError"}

\* MockSandboxAdapter.execute: a cat with a redirection fails, the default
\* answer echoes the command
MockExecute(command) ==
  IF command = "cat a > b"
    THEN Result("", "mock: write not implemented", 1)
    ELSE Result("Executed: " \o command, "", 0)

\* what execute(command) can resolve with on the adapter
ExecuteResults(a, command) ==
  CASE a = "mock"     -> {MockExecute(command)}
    [] a = "fallback" -> {Result("fallback-stdout", "", 0)}
    [] OTHER -> {Result(o, e, x) : o \in {"", "out"}, e \in {"", "err"}, x \in {0, 1}}

\* mutant: onComplete is called first
HandlerOrder_CompleteFirst == <<"onComplete", "onStdout", "onStderr">>

\* the order of the three if-statements of executeStream
HandlerOrder == <<"onStdout", "onStderr", "onComplete">>

\* the condition in front of each handler call
HandlerDue(h, handlers, result) ==
  CASE h = "onStdout"   -> h \in handlers /\ result.stdout # ""
    [] h = "onStderr"   -> h \in handlers /\ result.stderr # ""
    [] h = "onComplete" -> h \in handlers

\* the argument of each handler call
HandlerArg(h, result) ==
  CASE h = "onStdout"   -> [text |-> result.stdout]
    [] h = "onStderr"   -> [text |-> result.stderr]
    [] h = "onComplete" -> result

Event(ev, arg) == [ev |-> ev, arg |-> arg]

\* position in HandlerOrder of the first handler due at or after k, 0 if none
RECURSIVE NextDue(_, _, _)
NextDue(k, handlers, result) ==
  IF k > Len(HandlerOrder) THEN 0
  ELSE IF HandlerDue(HandlerOrder[k], handlers, result) THEN k
  ELSE NextDue(k + 1, handlers, result)

\* the rest of executeStream from the k-th if-statement on: the next handler
\* that is due is called, or the call resolves
Exec_continue(x, k, log) ==
  LET j == NextDue(k, x.handlers, x.result) IN
  IF j = 0
    THEN /\ xs' = [x EXCEPT !.pc = "resolved"]
         /\ xlog' = log
    ELSE /\ xs' = [x EXCEPT !.pc = "handler", !.stage = j]
         /\ xlog' = Append(log, Event(HandlerOrder[j], HandlerArg(HandlerOrder[j], x.result)))

\* executeStream(command, handlers, options): this.execute(command, options) is called
executeStream ==
  /\ xs.pc = "idle"
  /\ adapter # "mock"
  /\ \E c \in Commands, o \in OptionChoices, hs \in SUBSET HandlerNames :
       /\ xs' = [XsIdle EXCEPT !.pc = "executing", !.command = c, !.options = o,
                               !.handlers = hs]
       /\ xlog' = <<Event("execute", [command |-> c, options |-> o])>>
  /\ ExecFrame

\* mutant: a rejection of execute is reported to onError before it is rethrown
Exec_executeReturns_CallsOnError ==
  /\ xs.pc = "executing"
  /\ adapter # "mock"
  /\ \/ /\ adapter # "fallback"
        /\ xs' = [xs EXCEPT !.pc = "rejected", !.err = Err("ExecuteError")]
        /\ xlog' = IF "onError" \in xs.handlers
                     THEN Append(xlog, Event("onError", [text |-> "ExecuteError"]))
                     ELSE xlog
     \/ /\ ExecuteAvailable
        /\ \E r \in ExecuteResults(adapter, xs.command) :
             Exec_continue([xs EXCEPT !.result = r, !.hasResult = TRUE], 1, xlog)
  /\ ExecFrame

\* execute settles: its rejection is executeStream's, its result goes to the handlers
Exec_executeReturns ==
  /\ xs.pc = "executing"
  /\ adapter # "mock"
  /\ \/ /\ adapter # "fallback"
        /\ xs' = [xs EXCEPT !.pc = "rejected", !.err = Err("ExecuteError")]
        /\ UNCHANGED xlog
     \/ /\ ExecuteAvailable
        /\ \E r \in ExecuteResults(adapter, xs.command) :
             Exec_continue([xs EXCEPT !.result = r, !.hasResult = TRUE], 1, xlog)
  /\ ExecFrame

\* an awaited handler settles: its rejection is executeStream's
Exec_handlerReturns ==
  /\ xs.pc = "handler"
  /\ \/ /\ xs' = [xs EXCEPT !.pc = "rejected", !.err = Err("HandlerError")]
        /\ UNCHANGED xlog
     \/ IF adapter = "mock"
          THEN /\ xs' = [xs EXCEPT !.pc = "resolved"]
               /\ UNCHANGED xlog
          ELSE Exec_continue(xs, xs.stage + 1, xlog)
  /\ ExecFrame

\* MockSandboxAdapter.executeStream from `if (handlers.onComplete)` on
Mock_complete(x, log) ==
  IF "onComplete" \in x.handlers
    THEN /\ xs' = [x EXCEPT !.pc = "executing"]
         /\ xlog' = Append(log, Event("execute", [command |-> x.command,
                                                   options |-> x.options]))
    ELSE /\ xs' = [x EXCEPT !.pc = "resolved"]
         /\ xlog' = log

\* MockSandboxAdapter.executeStream(command, handlers, options)
Mock_executeStream ==
  /\ xs.pc = "idle"
  /\ adapter = "mock"
  /\ \E c \in Commands, o \in OptionChoices, hs \in SUBSET HandlerNames :
       LET x == [XsIdle EXCEPT !.command = c, !.options = o, !.handlers = hs] IN
       IF "onStdout" \in hs
         THEN /\ xs' = [x EXCEPT !.pc = "mock_stdout"]
              /\ xlog' = <<Event("onStdout", [text |-> "Streamed: " \o c])>>
         ELSE Mock_complete(x, <<>>)
  /\ ExecFrame

\* the mock's awaited onStdout settles
Mock_stdoutReturns ==
  /\ xs.pc = "mock_stdout"
  /\ \/ /\ xs' = [xs EXCEPT !.pc = "rejected", !.err = Err("HandlerError")]
        /\ UNCHANGED xlog
     \/ Mock_complete(xs, xlog)
  /\ ExecFrame

\* the mock's execute resolves and onComplete is called with its result
Mock_executeReturns ==
  /\ xs.pc = "executing"
  /\ adapter = "mock"
  /\ LET r == MockExecute(xs.command) IN
     /\ xs' = [xs EXCEPT !.pc = "handler", !.stage = 3, !.result = r, !.hasResult = TRUE]
     /\ xlog' = Append(xlog, Event("onComplete", r))
  /\ ExecFrame

\* the caller has the outcome of the call
Exec_settled ==
  /\ xs.pc \in {"resolved", "rejected"}
  /\ xs' = XsIdle
  /\ xlog' = <<>>
  /\ ExecFrame

InitExec ==
  /\ adapter \in ExecStreamAdapters
  /\ hasPolyfill = TRUE
  /\ hasFactory = FALSE
  /\ status = St("Running")
  /\ connectionState = "disconnected"
  /\ hasSandbox = FALSE
  /\ connection \in (IF adapter = "minimal" THEN BOOLEAN ELSE {FALSE})
  /\ last = NoCall
  /\ wpc = "idle" /\ now = 0 /\ timeoutMs = 0 /\ pingLog = <<>> /\ sleepLog = <<>>
  /\ outstanding = 0 /\ pingTime = 0 /\ werror = NoErr
  /\ fs = <<>> /\ fcall = <<>> /\ fresults = <<>> /\ fattempts = <<>> /\ inflight = 0
  /\ execCalls = 0 /\ fret = <<>>
  /\ gen = GenIdle /\ genPulls = 0 /\ genReads = <<>> /\ genChunks = <<>>
  /\ xs = XsIdle /\ xlog = <<>>
  /\ mlog = <<>> /\ srch = NoSearch
  /\ sdkInst = NoInst /\ pending = {}

NextExec ==
  \/ executeStream \/ Exec_executeReturns \/ Exec_handlerReturns
  \/ Mock_executeStream \/ Mock_stdoutReturns \/ Mock_executeReturns
  \/ Exec_settled

SpecExec == InitExec /\ [][NextExec]_vars

----------------------------------------------------------------------------
(* MockSandboxAdapter: readFiles / writeFiles / deleteFiles over its       *)
(* in-memory Map (kept in fs), each a synchronous map over the input.      *)
(* Strings are sequences of code points.                                   *)

MockFrame ==
  UNCHANGED <<lifeVars, waitVars, streamVars, execVars, raceVars, fcall, fresults,
              fattempts, inflight, execCalls>>

\* the empty string and one with a two-byte character
MockStrings == { <<>>, <<233, 104>> }

\* new TextEncoder().encode(s), for code points below U+0800
RECURSIVE TextEncode(_)
TextEncode(s) ==
  IF s = <<>> THEN <<>>
  ELSE (IF Head(s) < 128
          THEN <<Head(s)>>
          ELSE <<192 + (Head(s) \div 64), 128 + (Head(s) % 64)>>) \o TextEncode(Tail(s))

\* FileWriteEntry.data: a string, bytes, a buffer, or something else (a Blob
\* and a ReadableStream take the same branch)
MockData ==
  {[kind |-> "string", text |-> t] : t \in MockStrings} \cup
  {[kind |-> k, text |-> <<>>] : k \in {"Uint8Array", "ArrayBuffer", "ReadableStream"}}

MockEntries == [path : Paths, data : MockData]

\* the body of entries.map in writeFiles for one entry, on the Map files
MockWriteOne(files, entry) ==
  IF entry.data.kind \in {"string", "Uint8Array", "ArrayBuffer"}
    THEN LET data == IF entry.data.kind = "string" THEN TextEncode(entry.data.text)
                     ELSE Bin
         IN [files |-> [files EXCEPT ![entry.path] = File(data)],
             result |-> [path |-> entry.path, bytesWritten |-> Len(data),
                         error |-> "null"]]
    ELSE [files |-> files, result |-> WriteFailure(entry.path)]

\* content.slice(start, end) for the range option; the whole content when the
\* option is absent or does not parse
MockSliced(content, range) ==
  IF range = <<>> \/ ParseRange(range).invalid THEN content
  ELSE Slice(content, ParseRange(range).start,
             IF ParseRange(range).hasEnd THEN ParseRange(range).end ELSE Len(content))

\* the body of paths.map in readFiles for one path
MockReadOne(files, path, range) ==
  IF files[path].exists
    THEN [path |-> path, content |-> MockSliced(files[path].content, range),
          error |-> "null"]
    ELSE ReadFailure(path)

\* mutant: the file stays in the Map
MockDeleteOne_KeepsFile(files, path) ==
  [files |-> files,
   result |-> [path |-> path, success |-> files[path].exists, error |-> "null"]]

\* the body of paths.map in deleteFiles for one path
MockDeleteOne(files, path) ==
  [files |-> [files EXCEPT ![path] = Missing],
   result |-> [path |-> path, success |-> files[path].exists, error |-> "null"]]

\* entries.map(...) of writeFiles: the Map and the results after the entries
\* from the k-th on
RECURSIVE MockWriteAll(_, _, _, _)
MockWriteAll(files, entries, k, results) ==
  IF k > Len(entries) THEN [files |-> files, results |-> results]
  ELSE LET o == MockWriteOne(files, entries[k])
       IN MockWriteAll(o.files, entries, k + 1, Append(results, o.result))

\* paths.map(...) of deleteFiles: the Map and the results after the paths from
\* the k-th on
RECURSIVE MockDeleteAll(_, _, _, _)
MockDeleteAll(files, paths, k, results) ==
  IF k > Len(paths) THEN [files |-> files, results |-> results]
  ELSE LET o == MockDeleteOne(files, paths[k])
       IN MockDeleteAll(o.files, paths, k + 1, Append(results, o.result))

\* a returned call as the caller sees it
MockCall(op, input, range, results) ==
  [op |-> op, input |-> input, range |-> range, results |-> results]

\* whether the call continues the sequence write(p, string) / read(p) /
\* delete(p) / read(p) that log is a prefix of
ContinuesSequence(log, call) ==
  /\ Len(log) \in 1..3
  /\ call.op = <<"readFiles", "deleteFiles", "readFiles">>[Len(log)]
  /\ call.input = << log[1].input[1].path >>
  /\ call.range = <<>>

StartsSequence(call) ==
  /\ call.op = "writeFiles"
  /\ Len(call.input) = 1
  /\ call.input[1].data.kind = "string"

\* the caller's record of the running sequence after one more returned call
Observe(log, call) ==
  IF ContinuesSequence(log, call) THEN Append(log, call)
  ELSE IF StartsSequence(call) THEN <<call>>
  ELSE <<>>

MockReturn(op, paths, range, results) ==
  [NoRet EXCEPT !.op = op, !.input = paths, !.range = range, !.results = results]

\* MockSandboxAdapter.writeFiles(entries)
Mock_writeFiles ==
  /\ adapter = "mock"
  /\ \E entries \in SeqsUpTo(MockEntries, MaxBatch) :
       LET o == MockWriteAll(fs, entries, 1, <<>>) IN
       /\ fs' = o.files
       /\ fret' = MockReturn("writeFiles", PathsOf(entries), <<>>, o.results)
       /\ mlog' = Observe(mlog, MockCall("writeFiles", entries, <<>>, o.results))
  /\ UNCHANGED srch
  /\ MockFrame

\* MockSandboxAdapter.readFiles(paths, options)
Mock_readFiles ==
  /\ adapter = "mock"
  /\ \E paths \in SeqsUpTo(Paths, MaxBatch), r \in RangeChoices :
       LET results == [k \in 1..Len(paths) |-> MockReadOne(fs, paths[k], r)] IN
       /\ fret' = MockReturn("readFiles", paths, r, results)
       /\ mlog' = Observe(mlog, MockCall("readFiles", paths, r, results))
  /\ UNCHANGED <<fs, srch>>
  /\ MockFrame

\* MockSandboxAdapter.deleteFiles(paths)
Mock_deleteFiles ==
  /\ adapter = "mock"
  /\ \E paths \in SeqsUpTo(Paths, MaxBatch) :
       LET o == MockDeleteAll(fs, paths, 1, <<>>) IN
       /\ fs' = o.files
       /\ fret' = MockReturn("deleteFiles", paths, <<>>, o.results)
       /\ mlog' = Observe(mlog, MockCall("deleteFiles", paths, <<>>, o.results))
  /\ UNCHANGED srch
  /\ MockFrame

InitMock ==
  /\ adapter = "mock"
  /\ hasPolyfill = FALSE
  /\ hasFactory = FALSE
  /\ status = St("Running")
  /\ connectionState = "disconnected"
  /\ hasSandbox = FALSE
  /\ connection = FALSE
  /\ last = NoCall
  /\ wpc = "idle" /\ now = 0 /\ timeoutMs = 0 /\ pingLog = <<>> /\ sleepLog = <<>>
  /\ outstanding = 0 /\ pingTime = 0 /\ werror = NoErr
  /\ fs = [p \in Paths |-> Missing]
  /\ fcall = Idle /\ fresults = <<>> /\ fattempts = <<>> /\ inflight = 0
  /\ execCalls = 0 /\ fret = NoRet
  /\ gen = GenIdle /\ genPulls = 0 /\ genReads = <<>> /\ genChunks = <<>>
  /\ xs = XsIdle /\ xlog = <<>>
  /\ mlog = <<>> /\ srch = NoSearch
  /\ sdkInst = NoInst /\ pending = {}

NextMock == Mock_writeFiles \/ Mock_readFiles \/ Mock_deleteFiles

SpecMock == InitMock /\ [][NextMock]_vars

----------------------------------------------------------------------------
(* MockSandboxAdapter.search(pattern, path) over the keys of its Map.      *)
(* File names and patterns are sequences of one-character strings.         *)

\* keys the Map is given: /t/a.x /t/ax /t/a.xy /t2/a.x /t/s/b.x /v/c.m
SearchFiles ==
  { <<"/", "t", "/", "a", ".", "x">>,
    <<"/", "t", "/", "a", "x">>,
    <<"/", "t", "/", "a", ".", "x", "y">>,
    <<"/", "t", "2", "/", "a", ".", "x">>,
    <<"/", "t", "/", "s", "/", "b", ".", "x">>,
    <<"/", "v", "/", "c", ".", "m">> }

\* wildcard patterns searched for: *.x  a*  *
SearchPatterns ==
  { <<"*", ".", "x">>, <<"a", "*">>, <<"*">> }

\* the path argument, <<>> standing for undefined: /t  /t/s
SearchDirs ==
  { <<>>, <<"/", "t">>, <<"/", "t", "/", "s">> }

\* String.prototype.startsWith
StartsWith(s, prefix) ==
  Len(prefix) <= Len(s) /\ SubSeq(s, 1, Len(prefix)) = prefix

\* filePath.split('/').pop() || ''
RECURSIVE Basename(_)
Basename(f) ==
  IF \A k \in 1..Len(f) : f[k] # "/" THEN f
  ELSE Basename(Tail(f))

\* new RegExp(pattern.replace(/\*/g, '.*')) matched at the start of s: a '*'
\* of the pattern is '.*', a '.' of the pattern is any character, a letter
\* is itself; the match may stop before the end of s
RECURSIVE RegExpMatchesAtStart(_, _)
RegExpMatchesAtStart(pattern, s) ==
  IF pattern = <<>> THEN TRUE
  ELSE IF Head(pattern) = "*"
    THEN \E k \in 0..Len(s) :
           RegExpMatchesAtStart(Tail(pattern), SubSeq(s, k + 1, Len(s)))
  ELSE /\ s # <<>>
       /\ Head(pattern) = "." \/ Head(pattern) = Head(s)
       /\ RegExpMatchesAtStart(Tail(pattern), Tail(s))

\* regex.test(basename): a match anywhere in the string
RegExpTest(pattern, s) ==
  \E k \in 0..Len(s) : RegExpMatchesAtStart(pattern, SubSeq(s, k + 1, Len(s)))

\* the entries search pushes
MockSearchResults(files, pattern, path) ==
  {f \in files :
     /\ path = <<>> \/ StartsWith(f, path)
     /\ RegExpTest(pattern, Basename(f))}

SearchFrame ==
  UNCHANGED <<lifeVars, waitVars, fileVars, streamVars, execVars, raceVars, mlog>>

\* setFile(path, content): control method of the mock
Mock_setFile ==
  /\ adapter = "mock"
  /\ \E f \in SearchFiles : srch' = [srch EXCEPT !.files = @ \cup {f}]
  /\ SearchFrame

\* clearFiles()
Mock_clearFiles ==
  /\ adapter = "mock"
  /\ srch' = [srch EXCEPT !.files = {}]
  /\ SearchFrame

\* MockSandboxAdapter.search(pattern, path)
Mock_search ==
  /\ adapter = "mock"
  /\ \E pattern \in SearchPatterns, path \in SearchDirs :
       srch' = [srch EXCEPT !.pattern = pattern, !.path = path,
                            !.hasPath = (path # <<>>),
                            !.results = MockSearchResults(srch.files, pattern, path)]
  /\ SearchFrame

NextSearch == Mock_setFile \/ Mock_clearFiles \/ Mock_search

SpecSearch == InitMock /\ [][NextSearch]_vars

----------------------------------------------------------------------------
(* Properties of the lifecycle (checked under Spec) *)

\* the edges of the documented status state machine
AllowedEdges ==
  { <<"Creating", "Running">>, <<"Running", "Paused">>, <<"Paused", "Running">>,
    <<"Paused", "Deleted">>, <<"Creating", "Error">>, <<"Running", "Error">> }

\* C1: on every adapter and for every sequence of lifecycle calls, each change
\* of the status field follows one of the edges Creating->Running,
\* Running->Paused, Paused->Running, Paused->Deleted, Creating->Error,
\* Running->Error (so nothing leaves Deleted, and Error is not entered from
\* Paused).
C1_StatusFollowsStateMachine ==
  [][status'.state # status.state
       => <<status.state, status'.state>> \in AllowedEdges]_vars

\* C6: ping() never rejects, on any adapter in any state: a finished ping has
\* no error and its value is a boolean.
C6_PingNeverRejects ==
  last.op = "ping" => (last.err = NoErr /\ last.value \in BOOLEAN)

\* the operations among pause / resume / executeBackground / interrupt that
\* the adapter class does not implement itself
UnsupportedOps(a) ==
  CASE a = "opensandbox" -> {}
    [] a = "fastgpt"     -> {"executeBackground", "interrupt"}
    [] a = "minimal"     -> {"pause", "resume", "executeBackground", "interrupt"}
    [] a = "fallback"    -> {"executeBackground", "interrupt"}

\* C8: pause(), resume(), executeBackground() or interrupt() on an adapter with
\* no native support for it rejects with FeatureNotSupportedError whose feature
\* is the attempted operation and whose provider is the adapter's provider;
\* no execute() or SDK call is made and the status field is unchanged.
C8_UnsupportedFailsFast ==
  last.op \in UnsupportedOps(adapter) =>
    /\ last.err = FeatureNotSupportedError(last.op, ProviderOf(adapter))
    /\ last.sdk = 0
    /\ last.exec = 0
    /\ status = last.before

\* a connected minimal adapter has just refused pause() and is still Running
C8_Witness ==
  /\ adapter = "minimal"
  /\ last.op = "pause"
  /\ last.err.kind = "FeatureNotSupportedError"
  /\ connection
  /\ status.state = "Running"

----------------------------------------------------------------------------
(* Properties of waitUntilReady (checked under SpecWait / SpecWaitFair) *)

AllPingsFalse == \A k \in 1..Len(pingLog) : pingLog[k] = "false"

WaitDone == wpc \in {"resolved", "rejected"}

\* C2: waitUntilReady resolves as soon as one ping returns true: when the k-th
\* ping is the first to return true, the call has resolved after exactly k
\* pings (k - 1 sleeps) and no further ping or sleep is issued; and it only
\* ever resolves on a true ping.
C2_ResolvesAtFirstTruePing ==
  /\ \A k \in 1..Len(pingLog) :
       pingLog[k] = "true" =>
         /\ k = Len(pingLog)
         /\ wpc = "resolved"
         /\ Len(sleepLog) = k - 1
         /\ outstanding = 0
  /\ wpc = "resolved" => (Len(pingLog) >= 1 /\ pingLog[Len(pingLog)] = "true")

\* the third ping of a call was the first to return true
C2_Witness ==
  /\ wpc = "resolved"
  /\ Len(pingLog) = 3
  /\ pingLog = <<"false", "false", "true">>

\* C3: when every ping returns false (and each ping completes), the call
\* eventually terminates, and it terminates by rejecting with a
\* SandboxReadyTimeoutError built from the adapter's id and the configured
\* timeoutMs; it never resolves and never loops forever.
C3_AlwaysFalseTimesOut ==
  /\ [](WaitDone /\ AllPingsFalse =>
          /\ wpc = "rejected"
          /\ werror = SandboxReadyTimeoutError(IdOf(adapter), timeoutMs))
  /\ [](wpc \in {"check", "pinging", "sleeping"} =>
          <>(wpc = "rejected" \/ ~AllPingsFalse))

\* a call with a positive budget was rejected after at least two false pings
C3_Witness ==
  /\ wpc = "rejected"
  /\ Len(pingLog) >= 2
  /\ AllPingsFalse
  /\ werror = SandboxReadyTimeoutError(IdOf(adapter), timeoutMs)

\* C4: waitUntilReady(50) with ping always false and instantaneous rejects
\* within roughly 50-150 ms of the call, with a ready-timeout error carrying
\* the sandbox id and 50.
C4_RejectsWithinBudgetPlusSlack ==
  (wpc = "rejected" /\ timeoutMs = 50 /\ pingTime = 0 /\ AllPingsFalse) =>
    /\ werror = SandboxReadyTimeoutError(IdOf(adapter), 50)
    /\ now >= 50
    /\ now <= 150

\* the state part of C5: at most one ping outstanding, every sleep is
\* checkInterval long, one sleep per false ping, each sleep has elapsed before
\* the next deadline check
C5_OneAtATimeFixedInterval ==
  /\ outstanding \in {0, 1}
  /\ outstanding = 1 <=> wpc = "pinging"
  /\ \A k \in 1..Len(sleepLog) : sleepLog[k] = checkInterval
  /\ Len(sleepLog) = Cardinality({k \in 1..Len(pingLog) : pingLog[k] = "false"})
  /\ wpc \in {"check", "pinging"} => now >= pingTime + checkInterval * Len(sleepLog)
  /\ wpc = "sleeping" => now >= pingTime + checkInterval * (Len(sleepLog) - 1)
  /\ (wpc = "rejected" /\ werror.kind = "SandboxReadyTimeoutError") =>
       /\ now >= timeoutMs
       /\ Len(pingLog) = Len(sleepLog)

\* C5: within one waitUntilReady call pings are issued one at a time, after
\* every false ping exactly one sleep of the fixed 1000 ms interval elapses
\* before the deadline is re-checked (the interval does not vary with the
\* attempt number), and once the deadline check has failed no further ping is
\* started by that call.
C5_FixedIntervalHardTimeout ==
  /\ []C5_OneAtATimeFixedInterval
  /\ [][wpc = "rejected" => (outstanding' = 0 /\ pingLog' = <<>>)]_vars

\* a call was rejected by the deadline after three false pings and three sleeps
C5_Witness ==
  /\ wpc = "rejected"
  /\ werror.kind = "SandboxReadyTimeoutError"
  /\ Len(sleepLog) = 3
  /\ Len(pingLog) = 3

----------------------------------------------------------------------------
(* Properties of the file operations (checked under SpecFiles) *)

BatchOps == {"readFiles", "writeFiles", "deleteFiles"}

\* C7: capability dispatch.  On an adapter without a polyfill service that does
\* not override the operation natively, each of readFiles, writeFiles,
\* deleteFiles, moveFiles, replaceContent, createDirectories,
\* deleteDirectories, listDirectory, readFileStream, getFileInfo,
\* setPermissions, search and getMetrics rejects with FeatureNotSupportedError
\* whose feature is the called operation and whose provider is the adapter's
\* provider, without any execute() call; with a polyfill service the call is
\* delegated to it.
C7_CapabilityDispatch ==
  /\ (fret.op \in BatchOps \cup DelegatedOps /\ ~NativeOverride(adapter, fret.op)) =>
       IF hasPolyfill
         THEN /\ fret.delegated
              /\ fret.err.kind # "FeatureNotSupportedError"
         ELSE /\ fret.err = FeatureNotSupportedError(fret.op, ProviderOf(adapter))
              /\ fret.exec = 0
              /\ ~fret.delegated
  /\ ~hasPolyfill => (execCalls = 0 /\ inflight = 0)
  /\ (gen.pc \in {"thrown", "done", "yielded"} \/ genPulls > 0) =>
       IF hasPolyfill
         THEN /\ gen.err.kind # "FeatureNotSupportedError"
              /\ gen.pc = "info" \/ gen.info # "none"
         ELSE /\ gen.pc = "thrown"
              /\ gen.err = FeatureNotSupportedError("readFileStream", ProviderOf(adapter))
              /\ genReads = <<>>
              /\ gen.info = "none"

\* readFileStream on an adapter without polyfill service was refused at the
\* consumer's first pull
C7_Witness ==
  /\ ~hasPolyfill
  /\ gen.pc = "thrown"
  /\ genPulls = 1
  /\ gen.err.kind = "FeatureNotSupportedError"

\* C9: for readFiles, writeFiles and deleteFiles and every input list (empty,
\* with duplicate paths, with failing items) the result list is as long as the
\* input and result[i].path is the path of input[i] for every i.
C9_ResultsAlignWithInput ==
  (fret.op \in BatchOps /\ fret.err = NoErr) =>
    /\ Len(fret.results) = Len(fret.input)
    /\ \A i \in 1..Len(fret.input) : fret.results[i].path = fret.input[i]

\* a read of the same path twice returned, its first item failed, its second
\* did not
C9_Witness ==
  /\ fret.op = "readFiles"
  /\ fret.err = NoErr
  /\ Len(fret.input) = 2
  /\ Len(fret.results) = 2
  /\ fret.input[1] = fret.input[2]
  /\ fret.results[1].error # "null"
  /\ fret.results[2].error = "null"

\* C10: in readFiles and writeFiles a failing item (polyfill call throws,
\* invalid range, stream read error) never aborts the batch: the call
\* resolves, every item is attempted, a failed item's entry carries a non-null
\* error with empty content / bytesWritten 0, and a successful item's entry
\* carries error = null.
C10_ItemFailureIsIsolated ==
  (fret.op \in {"readFiles", "writeFiles"} /\ fret.delegated) =>
    /\ fret.err = NoErr
    /\ Len(fret.attempted) = Len(fret.input)
    /\ Len(fret.results) = Len(fret.input)
    /\ \A i \in 1..Len(fret.attempted) :
         IF fret.attempted[i] = "failed"
           THEN /\ fret.results[i].error # "null"
                /\ IF fret.op = "readFiles"
                     THEN fret.results[i].content = <<>>
                     ELSE fret.results[i].bytesWritten = 0
           ELSE fret.results[i].error = "null"

\* a write of two entries returned: the first failed, the second was written
C10_Witness ==
  /\ fret.op = "writeFiles"
  /\ Len(fret.input) = 2
  /\ fret.attempted = <<"failed", "ok">>
  /\ fret.results[2].bytesWritten > 0

----------------------------------------------------------------------------
(* Properties of the range option of readFiles (checked under SpecFiles) *)

AllDigits(s) == s # <<>> /\ \A k \in 1..Len(s) : s[k] \in DigitChars

\* the documented reading of a range "<start>-<end>": two parts, each a
\* non-negative decimal integer, the end omissible, start < end when both
DocumentedRange(range) ==
  LET parts == SplitDash(range)
      wellFormed == /\ Len(parts) = 2
                    /\ AllDigits(parts[1])
                    /\ parts[2] = <<>> \/ AllDigits(parts[2])
      hasEnd == wellFormed /\ parts[2] # <<>>
      start == IF wellFormed THEN DigitRun(parts[1], 0) ELSE 0
      end == IF hasEnd THEN DigitRun(parts[2], 0) ELSE 0
  IN [valid |-> wellFormed /\ (hasEnd => start < end),
      start |-> start, hasEnd |-> hasEnd, end |-> end]

\* C15: a range whose start or end is not a non-negative integer, or with
\* start >= end, or with extra '-' segments, fails validation: every item of
\* such a readFiles call ends with an error and no read command is issued.
C15_InvalidRangeIssuesNoRead ==
  (fcall.op = "readFiles" /\ fcall.range # <<>>
     /\ ~DocumentedRange(fcall.range).valid) =>
    /\ fcall.pc # "await"
    /\ inflight = 0
    /\ execCalls = 0
    /\ \A k \in 1..Len(fresults) : fresults[k].error # "null"

\* C16: range semantics are half-open.  For a well-formed range "s-e" with
\* s < e <= n on a file of n bytes the read is issued with start s and end e
\* and returns exactly bytes [s, e); for "s-" it is issued with start s and no
\* end and returns exactly bytes [s, n).
C16_RangeIsHalfOpen ==
  /\ (fcall.op = "readFiles" /\ fcall.pc = "await"
        /\ fcall.range # <<>> /\ DocumentedRange(fcall.range).valid) =>
       LET d == DocumentedRange(fcall.range) IN
       fcall.args = [ranged |-> TRUE, start |-> d.start,
                     hasEnd |-> d.hasEnd, end |-> d.end]
  /\ (fret.op = "readFiles" /\ fret.err = NoErr
        /\ fret.range # <<>> /\ DocumentedRange(fret.range).valid) =>
       LET d == DocumentedRange(fret.range) IN
       \A i \in 1..Len(fret.results) :
         LET f == fs[fret.input[i]]
             n == Len(f.content)
             e == IF d.hasEnd THEN d.end ELSE n
         IN (fret.results[i].error = "null" /\ f.exists /\ d.start < e /\ e <= n) =>
              fret.results[i].content = SubSeq(f.content, d.start + 1, e)

\* a read of range "0-1" of the two-byte file 'hi' returned its first byte only
C16_Witness ==
  /\ fret.op = "readFiles"
  /\ fret.range = <<"0", "-", "1">>
  /\ Len(fret.results) >= 1
  /\ fs[fret.input[1]] = File(Hi)
  /\ fret.results[1].error = "null"
  /\ fret.results[1].content = <<104>>

----------------------------------------------------------------------------
(* Properties of stream-typed write payloads (checked under SpecFiles) *)

\* the entry being handled carries a stream-typed payload
StreamPayload ==
  /\ fcall.op \in {"writeFiles", "writeFileStream"}
  /\ fcall.i \in 1..Len(fcall.items)
  /\ \/ fcall.items[fcall.i].kind = "ReadableStream"
     \/ fcall.caller = "writeFileStream"

\* C20: a stream-typed write payload (a ReadableStream entry of writeFiles,
\* or writeFileStream) is read to completion first and then written with
\* exactly one write command whose data is the concatenation of all chunks in
\* arrival order; no write is issued before the stream reports done, and none
\* if reading the stream fails.
C20_StreamIsDrainedThenWrittenOnce ==
  /\ (StreamPayload /\ fcall.pc = "drain") => inflight = 0
  /\ (StreamPayload /\ fcall.pc = "await") =>
       /\ fcall.chunks = StreamChunks
       /\ fcall.data = Concat(StreamChunks)
       /\ inflight = 1
  /\ (fcall.op = "writeFiles" /\ fcall.caller = "direct") =>
       execCalls = Cardinality({k \in 1..Len(fattempts) : ~fcall.items[k].fails})
                   + (IF fcall.pc = "await" THEN 1 ELSE 0)
  /\ fcall.op = "writeFileStream" => execCalls = 0
  /\ fret.op = "writeFileStream" =>
       fret.exec = (IF fret.err = NoErr THEN 1 ELSE 0)

\* writeFileStream has drained both chunks and its single write is in flight
C20_Witness ==
  /\ fcall.op = "writeFiles"
  /\ fcall.caller = "writeFileStream"
  /\ fcall.pc = "await"
  /\ fcall.chunks = StreamChunks
  /\ execCalls = 1

----------------------------------------------------------------------------
(* Properties of sequencing and of readFileStream (checked under SpecFiles) *)

\* C11: within one readFiles or writeFiles call, and within one readFileStream
\* iteration, at most one polyfill command is outstanding at any time: the
\* command for item (or window) i + 1 is started only after the command for
\* item i has completed.
C11_OneCommandAtATime ==
  /\ inflight \in {0, 1}
  /\ inflight = 1 <=> (fcall.pc = "await" \/ gen.pc \in {"info", "reading"})
  /\ (fcall.op \in {"readFiles", "writeFiles"} /\ fcall.pc \in {"await", "drain"}) =>
       /\ Len(fresults) = fcall.i - 1
       /\ Len(fattempts) = fcall.i - 1
  /\ gen.pc = "reading" => Len(genChunks) = Len(genReads) - 1
  /\ gen.pc \in {"yielded", "done"} => Len(genChunks) = Len(genReads)

\* the read of the second item of a readFiles call is in flight, the first
\* item's result is already in the list
C11_Witness ==
  /\ fcall.op = "readFiles"
  /\ fcall.pc = "await"
  /\ fcall.i = 2
  /\ Len(fresults) = 1
  /\ inflight = 1

\* windows k = 1, 2, .. of a file of n bytes, as read arguments
Window(k, n) ==
  [ranged |-> TRUE, start |-> (k - 1) * chunkSize, hasEnd |-> TRUE,
   end |-> IF k * chunkSize < n THEN k * chunkSize ELSE n]

WindowCount(n) == (n + chunkSize - 1) \div chunkSize

\* C17: with a known size n readFileStream issues one range read per 64 KiB
\* window, in increasing offset order, with ranges [k*65536, min((k+1)*65536,
\* n)); run to its end it has issued ceil(n/65536) reads (none when n = 0) and
\* the yielded chunks, in order, are adjacent pieces covering exactly [0, n).
C17_WindowsPartitionTheFile ==
  gen.sized =>
    /\ Len(genReads) <= WindowCount(gen.size)
    /\ \A k \in 1..Len(genReads) : genReads[k] = Window(k, gen.size)
    /\ \A k \in 1..Len(genChunks) :
         /\ genChunks[k].lo = (IF k = 1 THEN 0 ELSE genChunks[k - 1].hi)
         /\ genChunks[k].lo < genChunks[k].hi
    /\ gen.pc = "done" =>
         /\ Len(genReads) = WindowCount(gen.size)
         /\ Len(genChunks) = WindowCount(gen.size)
         /\ gen.size > 0 => genChunks[Len(genChunks)].hi = gen.size

\* a file of two full windows and one byte was streamed to its end in three reads
C17_Witness ==
  /\ gen.pc = "done"
  /\ gen.sized
  /\ gen.size = 2 * chunkSize + 1
  /\ Len(genChunks) = 3
  /\ genChunks[3] = [lo |-> 2 * chunkSize, hi |-> 2 * chunkSize + 1]

C18_NoCommandWithoutPull ==
  /\ genPulls = 0 => (gen.pc \in {"idle", "created", "closed"} /\ genReads = <<>>
                        /\ gen.info = "none")
  /\ Len(genReads) <= genPulls
  /\ Len(genReads) <= Len(genChunks) + 1
  /\ gen.pc \in {"created", "yielded", "closed"} => inflight = 0

\* C18: readFileStream is consumer-driven: no remote command is issued before
\* the consumer's first pull, the read for window k + 1 is issued only after
\* chunk k has been delivered and the consumer has asked for the next chunk,
\* and when the consumer stops pulling no later read is ever issued.
C18_ConsumerDriven ==
  /\ []C18_NoCommandWithoutPull
  /\ [][(gen.pc \in {"created", "yielded"} /\ (inflight' > inflight \/ genReads' # genReads))
          => genPulls' = genPulls + 1]_vars
  /\ [][gen.pc = "closed" => (inflight' = inflight /\ genReads' \in {genReads, <<>>})]_vars

\* the consumer left after the first chunk of a three-window file: one read only
C18_Witness ==
  /\ gen.pc = "closed"
  /\ gen.size = 2 * chunkSize + 1
  /\ genPulls = 1
  /\ Len(genChunks) = 1
  /\ Len(genReads) = 1

\* C19: when the size cannot be determined (getFileInfo rejects, has no entry
\* for the path, or the entry has no numeric size) readFileStream falls back
\* to exactly one unranged read and yields its content as the only chunk; the
\* failure of getFileInfo is never what the consumer sees.
C19_FallbackIsOneUnrangedRead ==
  gen.info \in {"rejects", "noEntry", "noSize"} =>
    /\ genReads = <<NoArgs>>
    /\ gen.pc \in {"reading", "yielded", "done", "thrown", "closed"}
    /\ gen.pc \in {"yielded", "done"} => genChunks = <<[lo |-> 0, hi |-> gen.n]>>
    /\ gen.pc = "reading" => genChunks = <<>>
    /\ gen.pc = "thrown" => (genChunks = <<>> /\ gen.err = Err("Error"))

\* getFileInfo rejected and the stream ended after its single whole-file chunk
C19_Witness ==
  /\ gen.info = "rejects"
  /\ gen.pc = "done"
  /\ gen.n = chunkSize + 1
  /\ genChunks = <<[lo |-> 0, hi |-> chunkSize + 1]>>

----------------------------------------------------------------------------
(* Properties of the errors raised (checked under Spec) *)

\* the canonical error taxonomy
Taxonomy ==
  {"ConnectionError", "CommandExecutionError", "TimeoutError",
   "SandboxReadyTimeoutError", "FeatureNotSupportedError", "SandboxStateError"}

\* C14: every error a public adapter operation rejects with is a member of
\* the canonical taxonomy: a failure of the provider SDK, of the connection
\* factory or of the connection object is never passed through unwrapped, and
\* the adapter raises no plain Error itself.
C14_ErrorsAreCanonical ==
  last.err # NoErr => last.err.kind \in Taxonomy

----------------------------------------------------------------------------
(* Properties of executeStream (checked under SpecExec) *)

\* the documented position of each callback
CallbackRank(ev) ==
  CASE ev = "onStdout"   -> 1
    [] ev = "onStderr"   -> 2
    [] ev = "onComplete" -> 3
    [] OTHER             -> 0

\* C12: the executeStream fallback of the base class calls execute() exactly
\* once, first, with the given command and options; handlers are invoked only
\* after execute has completed, only the supplied ones, each at most once and
\* in the order onStdout (whole stdout), onStderr (whole stderr), onComplete
\* (the full result); when executeStream resolves with an onComplete handler,
\* that callback was the last one.
C12_FallbackBuffersThenCallsBack ==
  (adapter # "mock" /\ xs.pc # "idle") =>
    /\ Len(xlog) >= 1
    /\ xlog[1] = Event("execute", [command |-> xs.command, options |-> xs.options])
    /\ xs.pc = "executing" => (Len(xlog) = 1 /\ ~xs.hasResult)
    /\ \A k \in 2..Len(xlog) :
         /\ xs.hasResult
         /\ CallbackRank(xlog[k].ev) > 0
         /\ xlog[k].ev \in xs.handlers
         /\ xlog[k].arg = CASE xlog[k].ev = "onStdout"   -> [text |-> xs.result.stdout]
                            [] xlog[k].ev = "onStderr"   -> [text |-> xs.result.stderr]
                            [] xlog[k].ev = "onComplete" -> xs.result
         /\ \A j \in 2..(k - 1) : CallbackRank(xlog[j].ev) < CallbackRank(xlog[k].ev)
    /\ (xs.pc = "resolved" /\ "onComplete" \in xs.handlers) =>
         xlog[Len(xlog)].ev = "onComplete"

\* a call on the FastGPT adapter resolved after execute and all three callbacks
C12_Witness ==
  /\ adapter = "fastgpt"
  /\ xs.pc = "resolved"
  /\ Len(xlog) = 4
  /\ xlog[2].ev = "onStdout"
  /\ xlog[3].ev = "onStderr"
  /\ xlog[4] = Event("onComplete", Result("out", "err", 1))

\* C13: a stream handler is invoked only when its channel produced data: in
\* executeStream onStdout is not called when the command's stdout is empty,
\* onStderr is not called when its stderr is empty, and onError is not called
\* when no error occurred.
C13_HandlersOnlyOnData ==
  \A k \in 1..Len(xlog) :
    /\ (xlog[k].ev = "onStdout" /\ xs.hasResult) => xs.result.stdout # ""
    /\ (xlog[k].ev = "onStderr" /\ xs.hasResult) => xs.result.stderr # ""
    /\ xlog[k].ev # "onError"

----------------------------------------------------------------------------
(* Properties of the mock's file operations (checked under SpecMock) *)

\* C21: deleteFiles on a path that does not exist never rejects and returns
\* for that path an entry with success = false and a non-null error; so of two
\* deletes of the same path the first succeeds and the second reports
\* success = false with a non-null error.
C21_DeleteMissingReportsError ==
  [][fret'.op = "deleteFiles" =>
       /\ fret'.err = NoErr
       /\ \A i \in 1..Len(fret'.input) :
            ~fs[fret'.input[i]].exists =>
              /\ ~fret'.results[i].success
              /\ fret'.results[i].error # "null"]_vars

\* byte length of a string in UTF-8, for code points below U+0800
RECURSIVE ByteLength(_)
ByteLength(s) ==
  IF s = <<>> THEN 0 ELSE (IF Head(s) < 128 THEN 1 ELSE 2) + ByteLength(Tail(s))

\* new TextDecoder().decode(bytes), for well-formed one- and two-byte sequences
RECURSIVE TextDecode(_)
TextDecode(b) ==
  IF b = <<>> THEN <<>>
  ELSE IF Head(b) < 128 THEN <<Head(b)>> \o TextDecode(Tail(b))
  ELSE IF Len(b) >= 2 /\ Head(b) >= 192 /\ Head(b) < 224 /\ b[2] >= 128 /\ b[2] < 192
    THEN <<(Head(b) - 192) * 64 + (b[2] - 128)>> \o TextDecode(Tail(Tail(b)))
  ELSE <<65533>> \o TextDecode(Tail(b))

RECURSIVE WildcardMatch(_, _)
WildcardMatch(pattern, s) ==
  IF pattern = <<>> THEN s = <<>>
  ELSE IF Head(pattern) = "*"
    THEN \E k \in 0..Len(s) : WildcardMatch(Tail(pattern), SubSeq(s, k + 1, Len(s)))
  ELSE /\ s # <<>>
       /\ Head(pattern) = Head(s)
       /\ WildcardMatch(Tail(pattern), Tail(s))

\* f is the directory dir or lies below it
Under(dir, f) == f = dir \/ StartsWith(f, dir \o <<"/">>)

\* C23: search(pattern, path) returns only entries whose basename matches the
\* whole wildcard pattern and whose path lies under the directory path (the
\* path itself or below a '/' boundary).
C23_SearchReturnsOnlyMatches ==
  \A f \in srch.results :
    /\ WildcardMatch(srch.pattern, Basename(f))
    /\ srch.hasPath => Under(srch.path, f)

----------------------------------------------------------------------------
(* Further properties of the lifecycle (checked under Spec) *)

\* the operations documented to set the status
StatusSetters == {"create", "start", "stop", "pause", "resume", "delete"}

\* C24: the status field is written only by create, start, stop, pause, resume
\* and delete: getInfo, close, ping, getMetrics, execute / executeStream and
\* every other operation leave it unchanged on every adapter.
C24_OnlyLifecycleWritesStatus ==
  [][status' # status => last'.op \in StatusSetters]_vars

\* C25: in every reachable state of every adapter, a status whose state is
\* Error carries a human-readable reason.
C25_ErrorCarriesReason ==
  status.state = "Error" => status.reason # "none"

\* the operations of OpenSandboxAdapter documented to need an initialised sandbox
NeedsSandbox ==
  {"start", "stop", "pause", "resume", "delete", "getInfo", "renewExpiration",
   "execute", "executeStream", "executeBackground", "interrupt", "getMetrics"}

\* C26: on an OpenSandboxAdapter whose sandbox is not initialised, each of
\* start, stop, pause, resume, delete, getInfo, renewExpiration, execute,
\* executeStream, executeBackground, interrupt and getMetrics rejects with
\* SandboxStateError carrying the current connection state and the expected
\* state 'connected', and no SDK call is made.
C26_UninitialisedRejectsWithStateError ==
  (adapter = "opensandbox" /\ ~hasSandbox /\ last.op \in NeedsSandbox) =>
    /\ last.err = SandboxStateError(connectionState, "connected")
    /\ last.sdk = 0

\* C27: when the remote command terminates with exit code e, execute resolves
\* with ExecuteResult.exitCode = e, on every adapter.
C27_ExitCodeIsReported ==
  (last.op = "execute" /\ last.err = NoErr) =>
    last.value.result.exitCode = last.value.remote

\* C28: whenever FastGPTSandboxAdapter.create() resolves, status is Running;
\* when the container already exists it resolves without calling the SDK's
\* container.create (only the lookup is made).
C28_CreateResolvesRunning ==
  (adapter = "fastgpt" /\ last.op = "create" /\ last.err = NoErr) =>
    status.state = "Running"

\* the status each FastGPT lifecycle operation is documented to leave
FastGPTTarget(op) ==
  CASE op = "pause"  -> "Paused"
    [] op = "resume" -> "Running"
    [] op = "stop"   -> "Paused"
    [] op = "start"  -> "Running"
    [] op = "delete" -> "Deleted"
    [] op = "close"  -> "Deleted"

\* C29: on FastGPTSandboxAdapter, whenever the SDK call succeeds, status is
\* Paused after pause(), Running after resume(), Paused after stop(), Running
\* after start() and Deleted after delete() or close(), whatever the status
\* was before the call; a failed call leaves the status as it was.
C29_FastGPTLifecycleResults ==
  (adapter = "fastgpt" /\
   last.op \in {"pause", "resume", "stop", "start", "delete", "close"}) =>
     /\ last.sdk = 1
     /\ IF last.err = NoErr
          THEN status = St(FastGPTTarget(last.op))
          ELSE status = last.before

\* stop() has just succeeded on a FastGPT adapter that was Deleted before
C29_Witness ==
  /\ adapter = "fastgpt"
  /\ last.op = "stop"
  /\ last.err = NoErr
  /\ last.before.state = "Deleted"
  /\ status.state = "Paused"

\* C30: after OpenSandboxAdapter.start() resolves on an adapter whose status
\* was Paused or which had been stopped (status Deleted after stop()), status
\* is Running; on a sandbox that is not initialised start() rejects with
\* SandboxStateError.
C30_StartBringsBackRunning ==
  (adapter = "opensandbox" /\ last.op = "start") =>
    IF ~hasSandbox
      THEN last.err.kind = "SandboxStateError"
      ELSE (last.err = NoErr /\ last.before.state \in {"Paused", "Deleted"}) =>
             status.state = "Running"


-----------------------------------------------------------------------------
(* Error paths and interleavings                                           *)

C34_WriteStreamReportsFailure ==
  (fret # NoRet /\ fret.op = "writeFileStream" /\ fret.err = NoErr) =>
     fret.attempted = <<"ok">>

\* C35: in the executeStream of the base class, when execute() rejects the call
\* rejects with execute's error and its log holds the call of execute only (no
\* handler, onError included, was invoked); when a handler rejects the call
\* rejects with the handler's error and that handler is the last entry of the
\* log; a rejected call invokes nothing more.
C35_RejectionStopsTheCall ==
  /\ [](adapter # "mock" /\ xs.pc = "rejected" =>
          IF ~xs.hasResult
            THEN /\ xs.err = Err("ExecuteError")
                 /\ Len(xlog) = 1
                 /\ xlog[1].ev = "execute"
            ELSE /\ xs.err = Err("HandlerError")
                 /\ xs.stage \in 1..Len(HandlerOrder)
                 /\ xlog[Len(xlog)].ev = HandlerOrder[xs.stage]
                 /\ \A k \in 2..Len(xlog) : xlog[k].ev # "onError")
  /\ [][(adapter # "mock" /\ xs.pc = "rejected") => xlog' \in {xlog, <<>>}]_vars

\* every handler was given and onStdout rejected while onStderr and onComplete
\* were still due: the log ends with the call of onStdout
C35_Witness ==
  /\ adapter = "fastgpt"
  /\ xs.pc = "rejected"
  /\ xs.handlers = HandlerNames
  /\ xs.hasResult
  /\ xs.stage = 1
  /\ xs.result.stderr # ""
  /\ Len(xlog) = 2

\* C37: when the read of window k of readFileStream (k = 0, 1, ...) fails, the
\* iterator rejects on the pull that asked for chunk k with the error of that
\* read, unwrapped; the chunks 0..k-1, the answers to the reads of the windows
\* 0..k-1, were delivered before, in the order of the file; the failed read is
\* the last one issued and nothing is in flight;
\* the thrown generator issues no further read.
C37_FailedWindowEndsTheStream ==
  /\ [](gen.pc = "thrown" /\ genReads # <<>> =>
          LET k == Len(genReads) - 1 IN
          /\ genPulls = k + 1
          /\ Len(genChunks) = k
          /\ gen.err = Err("Error")
          /\ inflight = 0
          /\ gen.sized =>
               /\ gen.offset = k * chunkSize
               /\ genReads[k + 1] =
                    ReadArgs(FormatRange(k * chunkSize, Min((k + 1) * chunkSize, gen.n)))
               /\ \A i \in 1..k :
                    /\ genReads[i] =
                         ReadArgs(FormatRange((i - 1) * chunkSize, i * chunkSize))
                    /\ genChunks[i] = StreamRead(gen.n, genReads[i]))
  /\ [][gen.pc = "thrown" => genReads' \in {genReads, <<>>}]_vars

\* the second window of a file of three windows fails: one chunk was
\* delivered, two reads were issued, the third window is never asked for
C37_Witness ==
  /\ gen.pc = "thrown"
  /\ gen.sized
  /\ gen.n > 2 * chunkSize
  /\ Len(genReads) = 2
  /\ Len(genChunks) = 1
  /\ genPulls = 2

\* C31: OpenSandboxAdapter.pause() / resume() whose SDK call was made: when
\* the call fails with code 'SANDBOX::API_NOT_SUPPORTED' the operation rejects
\* with FeatureNotSupportedError(feature 'pause' resp. 'resume', provider
\* 'opensandbox'), on any other failure with CommandExecutionError, and in
\* both cases the status, the id and the held SDK instance are what they were
\* before; when the call succeeds the operation resolves with status Paused
\* resp. Running.
C31_PauseResumeTranslateFailures ==
  [][(adapter = "opensandbox" /\ last'.op \in {"pause", "resume"} /\ last'.sdk = 1) =>
       CASE sdkInst'.outcome = "unsupported" ->
              /\ last'.err = FeatureNotSupportedError(last'.op, "opensandbox")
              /\ status' = status
              /\ hasSandbox' = hasSandbox
              /\ <<sdkInst'.obj, sdkInst'.sid, sdkInst'.id>> =
                   <<sdkInst.obj, sdkInst.sid, sdkInst.id>>
         [] sdkInst'.outcome = "fail" ->
              /\ last'.err = Err("CommandExecutionError")
              /\ status' = status
              /\ hasSandbox' = hasSandbox
              /\ <<sdkInst'.obj, sdkInst'.sid, sdkInst'.id>> =
                   <<sdkInst.obj, sdkInst.sid, sdkInst.id>>
         [] sdkInst'.outcome = "ok" ->
              /\ last'.err = NoErr
              /\ status' = St(IF last'.op = "pause" THEN "Paused" ELSE "Running")
         [] OTHER -> FALSE]_vars

\* pause() of a running sandbox on a runtime without pause
C31_Witness ==
  /\ adapter = "opensandbox"
  /\ last.op = "pause"
  /\ last.sdk = 1
  /\ sdkInst.outcome = "unsupported"
  /\ last.err = FeatureNotSupportedError("pause", "opensandbox")
  /\ last.before = St("Running")
  /\ status = St("Running")
  /\ sdkInst.obj # 0

\* C33: on OpenSandboxAdapter, in every state reached by create, connect, stop,
\* delete, pause, resume and close: while connectionState is 'disconnected' or
\* 'closed' no SDK instance is held, and while it is 'connected' an instance
\* is held and id is that instance's id.
C33_ConnectionStateMatchesInstance ==
  adapter = "opensandbox" =>
    /\ connectionState \in {"disconnected", "closed"} => (~hasSandbox /\ sdkInst.obj = 0)
    /\ connectionState = "connected" =>
         (hasSandbox /\ sdkInst.obj # 0 /\ sdkInst.id = sdkInst.sid)


-----------------------------------------------------------------------------
(* FastGPTSandboxAdapter.execute over waitUntilReady (SpecReady)            *)

\* waitUntilReady(timeoutMs: number = 120000)
DefaultTimeoutMs == 120000

\* new CommandExecutionError(message, command, error): the cause is kept
CommandExecutionError(cause) ==
  [kind |-> "CommandExecutionError", feature |-> "none", provider |-> "none",
   cause |-> cause]

\* a public call in flight, at the await named by phase
InFlight(op, phase) == [op |-> op, phase |-> phase, stale |-> FALSE]

ReadyFrame ==
  UNCHANGED <<adapter, hasPolyfill, status, connectionState, hasSandbox, connection,
              hasFactory, sdkInst, fileVars, streamVars, execVars, mockVars>>

\* mutant: the command is sent without waiting for the sandbox to be ready
Ready_execute_NoWait ==
  /\ adapter = "fastgpt"
  /\ pending = {} /\ last = NoCall
  /\ pending' = {InFlight("execute", "exec")}
  /\ UNCHANGED <<waitVars, last>>
  /\ ReadyFrame

\* execute(command, options) is called: await this.waitUntilReady() starts
\* with the default budget
Ready_execute ==
  /\ adapter = "fastgpt"
  /\ pending = {} /\ last = NoCall
  /\ pending' = {InFlight("execute", "waitUntilReady")}
  /\ timeoutMs' = DefaultTimeoutMs
  /\ wpc' = "check"
  /\ now' = 0
  /\ pingLog' = <<>>
  /\ sleepLog' = <<>>
  /\ pingTime' = 0
  /\ werror' = NoErr
  /\ UNCHANGED <<outstanding, last>>
  /\ ReadyFrame

\* await this.waitUntilReady() settles: this.sdk.sandbox.exec(...) is called,
\* or the catch block wraps the rejection
Ready_waitReturns ==
  /\ InFlight("execute", "waitUntilReady") \in pending
  /\ wpc \in {"resolved", "rejected"}
  /\ IF wpc = "resolved"
       THEN /\ pending' = {InFlight("execute", "exec")}
            /\ UNCHANGED last
       ELSE /\ pending' = {}
            /\ last' = Done("execute", "none", CommandExecutionError(werror),
                            Len(pingLog), 0)
  /\ UNCHANGED waitVars
  /\ ReadyFrame

\* await this.sdk.sandbox.exec(...) settles: the response is returned, or the
\* catch block wraps the rejection
Ready_execReturns ==
  /\ InFlight("execute", "exec") \in pending
  /\ pending' = {}
  /\ \/ \E e \in ExitCodes :
          last' = Done("execute", Executed(e, e), NoErr, Len(pingLog) + 1, 0)
     \/ last' = Done("execute", "none", CommandExecutionError(Err("SdkError")),
                     Len(pingLog) + 1, 0)
  /\ UNCHANGED waitVars
  /\ ReadyFrame

\* the caller has the outcome of the call
Ready_settled ==
  /\ pending = {} /\ last.op = "execute"
  /\ last' = NoCall
  /\ wpc' = "idle" /\ now' = 0 /\ timeoutMs' = 0 /\ pingLog' = <<>> /\ sleepLog' = <<>>
  /\ pingTime' = 0 /\ werror' = NoErr
  /\ UNCHANGED <<outstanding, pending>>
  /\ ReadyFrame

InitReady == InitWait /\ adapter = "fastgpt"

NextReady ==
  \/ Ready_execute \/ Wait_check \/ Wait_pingReturns \/ Wait_sleepReturns
  \/ Ready_waitReturns \/ Ready_execReturns \/ Ready_settled

SpecReady == InitReady /\ [][NextReady]_vars

\* C36: FastGPTSandboxAdapter.execute has sent its command to the SDK only
\* when the last ping of this call returned true; a call whose wait ended
\* without a true ping has sent no command (its SDK calls are its pings), its
\* budget of 120000 ms is used up, and it rejected with CommandExecutionError
\* whose cause is SandboxReadyTimeoutError(id, 120000).
C36_CommandOnlyAfterTruePing ==
  adapter = "fastgpt" =>
    /\ InFlight("execute", "exec") \in pending =>
         /\ wpc = "resolved"
         /\ pingLog # <<>>
         /\ pingLog[Len(pingLog)] = "true"
    /\ (pending = {} /\ last.op = "execute") =>
         IF \E i \in 1..Len(pingLog) : pingLog[i] = "true"
           THEN /\ pingLog[Len(pingLog)] = "true"
                /\ last.sdk = Len(pingLog) + 1
           ELSE /\ last.sdk = Len(pingLog)
                /\ now >= DefaultTimeoutMs
                /\ last.err = CommandExecutionError(
                                SandboxReadyTimeoutError(IdOf(adapter), DefaultTimeoutMs))

\* the sandbox never answered true: after more than a hundred pings the call
\* rejected without a command
C36_Witness ==
  /\ adapter = "fastgpt"
  /\ pending = {}
  /\ last.op = "execute"
  /\ Len(pingLog) >= 100
  /\ \A i \in 1..Len(pingLog) : pingLog[i] = "false"
  /\ last.sdk = Len(pingLog)
  /\ last.err.kind = "CommandExecutionError"
  /\ last.err.cause = SandboxReadyTimeoutError("fastgpt", 120000)


-----------------------------------------------------------------------------
(* Lifecycle calls issued without awaiting the previous one (SpecRace)      *)

RaceAdapters == {"fastgpt", "opensandbox"}

RaceOps == {"create", "start", "stop", "pause", "resume", "delete"}

\* calls in flight at the same time
MaxInFlight == 2

\* the calls in flight when delete() resolved
MarkStale(S) == {[q EXCEPT !.stale = TRUE] : q \in S}

\* the call p settles (its promise resolves or rejects with the record done)
Settles(p, done) ==
  /\ last' = done
  /\ pending' = IF p.op = "delete" /\ done.err = NoErr
                  THEN MarkStale(pending \ {p})
                  ELSE pending \ {p}

\* the call p goes on to its next await
MovesTo(p, phase) ==
  /\ pending' = (pending \ {p}) \cup {[p EXCEPT !.phase = phase]}
  /\ UNCHANGED last

RaceFrame ==
  UNCHANGED <<adapter, hasPolyfill, hasFactory, connection, waitVars, fileVars,
              streamVars, execVars, mockVars>>

\* a call may be issued: at most MaxInFlight in flight, one of each operation
MayIssue(op) ==
  /\ Cardinality(pending) < MaxInFlight
  /\ \A q \in pending : q.op # op

\* FastGPTSandboxAdapter: a lifecycle method is called and runs up to its
\* first await (create: this.getInfo(); the others: their one SDK call)
FastGPT_issue ==
  /\ adapter = "fastgpt"
  /\ \E op \in RaceOps :
       /\ MayIssue(op)
       /\ pending' = pending \cup {InFlight(op, IF op = "create" THEN "getInfo" ELSE "sdk")}
  /\ UNCHANGED <<status, last, hasSandbox, connectionState, sdkInst>>
  /\ RaceFrame

\* the status each single-call method assigns after its await
FastGPTAssigns(op) ==
  CASE op = "start"  -> St("Running")
    [] op = "stop"   -> St("Paused")
    [] op = "pause"  -> St("Paused")
    [] op = "resume" -> St("Running")
    [] op = "delete" -> St("Deleted")

\* FastGPTSandboxAdapter: the awaited call of one call in flight returns and
\* the method runs up to its next await or to its end
FastGPT_returns ==
  /\ adapter = "fastgpt"
  /\ \E p \in pending :
       CASE p.op = "create" /\ p.phase = "getInfo" ->
              \/ /\ UNCHANGED status                      \* getInfo() rejects
                 /\ Settles(p, Done("create", "none", Err("ConnectionError"), 1, 0))
              \/ \E c \in ContainerStates :               \* the container exists
                   /\ status' = mapContainerStatus(c)
                   /\ Settles(p, Done("create", "void", NoErr, 1, 0))
              \/ /\ status' = St("Creating")              \* no container
                 /\ MovesTo(p, "container.create")
         [] p.op = "create" /\ p.phase = "container.create" ->
              \/ /\ UNCHANGED status
                 /\ Settles(p, Done("create", "none", Err("ConnectionError"), 2, 0))
              \/ /\ UNCHANGED status
                 /\ MovesTo(p, "waitUntilReady")
         [] p.op = "create" /\ p.phase = "waitUntilReady" ->
              \/ /\ UNCHANGED status
                 /\ Settles(p, Done("create", "none", Err("ConnectionError"), 3, 0))
              \/ /\ status' = St("Running")
                 /\ Settles(p, Done("create", "void", NoErr, 3, 0))
         [] OTHER ->
              \/ /\ status' = FastGPTAssigns(p.op)
                 /\ Settles(p, Done(p.op, "void", NoErr, 1, 0))
              \/ /\ UNCHANGED status
                 /\ Settles(p, Done(p.op, "none", Err("CommandExecutionError"), 1, 0))
  /\ UNCHANGED <<hasSandbox, connectionState, sdkInst>>
  /\ RaceFrame

\* OpenSandboxAdapter: a lifecycle method is called and runs up to its first
\* await: create sets 'connecting'; the others read the sandbox getter, which
\* throws without an instance; start() does nothing unless the status is Paused
OpenSandbox_issue ==
  /\ adapter = "opensandbox"
  /\ \E op \in RaceOps :
       /\ MayIssue(op)
       /\ CASE op = "create" ->
                 /\ connectionState' = "connecting"
                 /\ pending' = pending \cup {InFlight(op, "Sandbox.create")}
                 /\ UNCHANGED last
            [] op = "start" /\ status.state # "Paused" ->
                 /\ last' = Done("start", "void", NoErr, 0, 0)
                 /\ UNCHANGED <<pending, connectionState>>
            [] OTHER ->
                 IF SandboxGetterThrows
                   THEN /\ last' = Done(op, "none", Err("CommandExecutionError"), 0, 0)
                        /\ UNCHANGED <<pending, connectionState>>
                   ELSE /\ pending' = pending \cup {InFlight(op, "sdk")}
                        /\ UNCHANGED <<last, connectionState>>
  /\ UNCHANGED <<status, hasSandbox, sdkInst>>
  /\ RaceFrame

\* OpenSandboxAdapter: the awaited SDK call of one call in flight returns
OpenSandbox_returns ==
  /\ adapter = "opensandbox"
  /\ \E p \in pending :
       CASE p.op = "create" ->
              \/ /\ hasSandbox' = TRUE
                 /\ \E sid \in SandboxIds :
                      sdkInst' = Held(FreshObj(sdkInst.obj), sid, "none")
                 /\ status' = St("Running")
                 /\ connectionState' = "connected"
                 /\ Settles(p, Done("create", "void", NoErr, 1, 0))
              \/ /\ connectionState' = "disconnected"
                 /\ UNCHANGED <<hasSandbox, sdkInst, status>>
                 /\ Settles(p, Done("create", "none", Err("ConnectionError"), 1, 0))
         [] p.op \in {"stop", "delete"} ->
              \/ /\ status' = St("Deleted")
                 /\ connectionState' = "disconnected"
                 /\ UNCHANGED <<hasSandbox, sdkInst>>
                 /\ Settles(p, Done(p.op, "void", NoErr, 1, 0))
              \/ /\ UNCHANGED <<status, connectionState, hasSandbox, sdkInst>>
                 /\ Settles(p, Done(p.op, "none", Err("CommandExecutionError"), 1, 0))
         [] p.op = "pause" ->
              \E o \in SdkOutcomes :
                /\ sdkInst' = [sdkInst EXCEPT !.outcome = o]
                /\ UNCHANGED <<hasSandbox, connectionState>>
                /\ IF o = "ok"
                     THEN /\ status' = St("Paused")
                          /\ Settles(p, Done("pause", "void", NoErr, 1, 0))
                     ELSE /\ UNCHANGED status
                          /\ Settles(p, Done("pause", "none",
                                             TranslateNotSupported("pause", o), 1, 0))
         [] OTHER ->                                     \* resume, start
              \E o \in SdkOutcomes :
                /\ UNCHANGED connectionState
                /\ IF o = "ok"
                     THEN /\ hasSandbox' = TRUE
                          /\ \E sid \in SandboxIds :
                               sdkInst' = Held(FreshObj(sdkInst.obj), sid, o)
                          /\ status' = St("Running")
                          /\ Settles(p, Done(p.op, "void", NoErr, 1, 0))
                     ELSE /\ UNCHANGED <<hasSandbox, status>>
                          /\ sdkInst' = [sdkInst EXCEPT !.outcome = o]
                          /\ Settles(p, Done(p.op, "none",
                                             TranslateNotSupported("resume", o), 1, 0))
  /\ RaceFrame

InitRace == Init /\ adapter \in RaceAdapters

NextRace == FastGPT_issue \/ FastGPT_returns \/ OpenSandbox_issue \/ OpenSandbox_returns

SpecRace == InitRace /\ [][NextRace]_vars

\* C38: when lifecycle calls on one adapter are issued without awaiting each
\* other, a call that was in flight when delete() resolved does not change the
\* status any more: while the status is Deleted, the return of such a call
\* leaves it Deleted.
C38_DeletedStaysDeleted ==
  [][\A p \in pending :
       (p.stale /\ p \notin pending' /\ status.state = "Deleted") =>
          status'.state = "Deleted"]_vars

=============================================================================
